-------------------------- MODULE MCMessageObjects --------------------------
(***************************************************************************)
(* Instances of MessageObjects for TLC.                                    *)
(***************************************************************************)
EXTENDS MessageObjects, TLC

(* A name is set or not; what it is makes no difference to a list.         *)
MCEmptyOnly == [t \in {""} |-> 0]
MCName == {"username"}

MCTexts == [t \in {"", "ab"} |-> IF t = "" THEN 0 ELSE 2]
MCNamePort == {"username", "port"}

MCSymmetry == Permutations(Objects)
=============================================================================
