------------------------- MODULE MCProposerSelection -------------------------
(* A DAO-owned workgroup: its authority is the treasury of governance gA. *)
(* Wallet w1 holds a token of gB and then one of gA, so its lookup finds  *)
(* gA; wallet w2 holds only a token of gB and finds none.                 *)
EXTENDS ProposerSelection

CONSTANTS w1, w2, gA, gB

MCMintAuthorities == [w \in {w1, w2} |-> IF w = w1 THEN <<gB, gA>> ELSE <<gB>>]
MCGroupAuthority == Treasury(gA)
====
