---------------------------- MODULE MCChatTurns ----------------------------
(* Requests are interchangeable, and so are the sessions that can be deleted
   and those that cannot. *)
EXTENDS ChatTurnsInv, TLC

Symmetry == Permutations(Req) \cup Permutations(Deletable)
              \cup Permutations(Session \ Deletable)
=============================================================================
