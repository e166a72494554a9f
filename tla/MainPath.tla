------------------------------- MODULE MainPath -------------------------------
(***************************************************************************)
(* What target prediction remembers, as if alternate paths were never      *)
(* followed: both return stacks and the branch target buffer are functions *)
(* of the branches the program executes, but for which entry of the buffer *)
(* makes room.                                                             *)
(***************************************************************************)
EXTENDS ReturnStack

CONSTANTS
  Branches,       \* the addresses of the program's branches
  TypeOf,         \* [Branches -> the types of branch]
  RAS_SIZE, ALT_RAS_SIZE

VARIABLES
  ras,            \* the return stack of the main path
  h2p_ras,        \* the return stack of alternate paths
  known           \* the branches in the branch target buffer

vars == <<ras, h2p_ras, known>>

Init ==
  /\ ras = EmptyStack(RAS_SIZE)
  /\ h2p_ras = EmptyStack(ALT_RAS_SIZE)
  /\ known = {}

\* The program executes branch b.
Execute(b, taken) ==
  /\ ras' = After(ras, RAS_SIZE, b, TypeOf[b])
  /\ h2p_ras' = After(h2p_ras, ALT_RAS_SIZE, b, TypeOf[b])
  /\ IF b \in known \/ ~taken
     THEN known' = known
     ELSE \E evicted \in known \cup {NoCall} : known' = (known \ {evicted}) \cup {b}

Next == \E b \in Branches, taken \in BOOLEAN : Execute(b, taken)

Spec == Init /\ [][Next]_vars
=============================================================================
