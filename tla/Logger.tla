-------------------------------- MODULE Logger --------------------------------
(***************************************************************************)
(* utils/logger.h and utils/logger.cpp: lines are logged in classes, one   *)
(* for each bit of a LogClass, which is the set of the places of its bits  *)
(* here.  A line is printed when its class is among the active ones, with  *)
(* the name of the class, which is found by a multiplication.              *)
(***************************************************************************)
EXTENDS Integers, Sequences, FiniteSetsExt, TLC

Places == 0 .. 31

\* The LOG_CLASS_ macros that are in use
LogClassOf ==
  [TASK |-> {0}, JOB |-> {1}, SCHEDULER |-> {2}, EXEC |-> {3}, SIMULATION |-> {4},
   EVAL_MK |-> {16}, EVAL_TS |-> {17}]

LogPrefix ==
  (0 :> "TASK") @@ (1 :> "JOB") @@ (2 :> "SCHED") @@ (3 :> "EXEC") @@ (4 :> "SIM")
    @@ (16 :> "EVAL_MK") @@ (17 :> "EVAL_TS")
    @@ [i \in Places |-> "RESERVED" \o ToString(i)]

\* initNameMapping
NameMapping ==
  [name \in {LogPrefix[i] : i \in Places} |-> {CHOOSE i \in Places : LogPrefix[i] = name}]

\* The bits of DEBRUIJN32, 0x76BE629, from the most significant one
DeBruijn32 ==
  << 0,0,0,0, 0,1,1,1, 0,1,1,0, 1,0,1,1, 1,1,1,0, 0,1,1,0, 0,0,1,0, 1,0,0,1 >>

DeBruijn32Table ==
  <<  0,  1, 23,  2, 29, 24, 19,  3, 30, 27, 25, 11, 20,  8,  4, 13,
     31, 22, 28, 18, 26, 10,  7, 12, 21, 17,  9,  6, 16,  5, 15, 14 >>

\* Mutant: the product is one bit short.
Bit2OffsetShort(cls) ==
  LET place == Min(cls)
      Bit(i) == IF i + place <= 32 THEN DeBruijn32[i + place] ELSE 0
      product == 8 * Bit(1) + 4 * Bit(2) + 2 * Bit(3) + Bit(4)
  IN  DeBruijn32Table[product + 1]

\* The lowest bit is taken alone, a multiplication with it shifts DEBRUIJN32 to the left,
\* and of the 32 bits that are left the first five are the index.
Bit2Offset(cls) ==
  LET place == Min(cls)
      Bit(i) == IF i + place <= 32 THEN DeBruijn32[i + place] ELSE 0
      product == 16 * Bit(1) + 8 * Bit(2) + 4 * Bit(3) + 2 * Bit(4) + Bit(5)
  IN  DeBruijn32Table[product + 1]

\* activateClass, in a loop over the names that are given; at() throws for another one.
KnownClasses(names) == names \subseteq DOMAIN NameMapping
ActivateClasses(globalClass, names) ==
  globalClass \cup UNION {NameMapping[name] : name \in names \cap DOMAIN NameMapping}

\* setClass((1 << level) - 1)
SetClass(level) == 0 .. level - 1

\* llogger: whether a line of a class is printed, and with which name
Prints(globalClass, cls) == globalClass \cap cls # {}
PrintedName(cls) == LogPrefix[Bit2Offset(cls)]

\* The lines that are printed are those of the classes with these names, and each
\* begins with the name of its class, which the viewer looks for.
PrintsExactly(globalClass, names) ==
  \A i \in Places : LET cls == {i} IN
    /\ Prints(globalClass, cls) <=> LogPrefix[i] \in names
    /\ PrintedName(cls) = LogPrefix[i]
    /\ NameMapping[PrintedName(cls)] = cls
===============================================================================
