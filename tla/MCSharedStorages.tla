-------------------------- MODULE MCSharedStorages ---------------------------
(* Instances of SharedStorages. *)
EXTENDS SharedStorages

CONSTANTS alice, sol, A, B, empty

MCTexts == {empty, A, B}

Creation(chain, name, code, used, tax) ==
  [ kind |-> "create", chain |-> chain, user |-> sol, name |-> name,
    refCode |-> code, usedRefCode |-> used, tax |-> tax ]
Permission(kind, name, u) ==
  [ kind |-> kind, chain |-> "solana", user |-> sol, name |-> name, subOwner |-> u ]
CodeChange(name, code) ==
  [ kind |-> "change", chain |-> "solana", user |-> sol, name |-> name,
    usedRefCode |-> code ]

\* Storages whose codes refer to each other, and permissions for both kinds
\* of address; the requester may or may not own what it names, and the
\* interface of the EVM lets the empty string through as a code.
Emittable ==
  { Creation("solana", A, B, empty, 1), Creation("solana", B, A, B, 1),
    Creation("evm", A, empty, empty, 1),
    Permission("allow", A, alice), Permission("remove", A, alice),
    Permission("remove", A, sol), CodeChange(B, empty) }

\* A permission in the name of the user on Aptos, that nobody emits: for the
\* key of a non-user storage.
Foreign == { [Permission("allow", A, B) EXCEPT !.user = alice] }

MCRequests == Emittable \union Foreign
MCUnemitted == [r \in MCRequests |-> IF r \in Foreign THEN 1 ELSE 0]

\* No other name is made a sub owner than B, and that at A.
MCNext ==
  /\ SharedNext
  /\ \A n \in DOMAIN storage' :
       storage'[n].subOwners \subseteq Addresses \union (IF n = A THEN {B} ELSE {})

MCSpec == SharedInit /\ [][MCNext]_sharedVars
===============================================================================
