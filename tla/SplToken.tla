------------------------------- MODULE SplToken -------------------------------
(***************************************************************************)
(* The token program (Solana/programs/token/src/lib.rs): a mint that is    *)
(* its own authority, minting on call, and requests to bridge, which burn  *)
(* tokens here for as many on another chain.  The SPL token program, which *)
(* keeps balances and lets holders transfer and burn, is external.         *)
(***************************************************************************)
EXTENDS Integers, FiniteSets, Functions

CONSTANTS
  Holders,      \* each with its associated token account, opened at will
  Amounts, Supplies,
  Chains,       \* destinations
  MaxU64,
  MaxMinted     \* bound on the history of mints

ASSUME SplAssumption ==
  /\ IsFiniteSet(Holders) /\ IsFiniteSet(Chains)
  /\ Amounts \subseteq Nat /\ Supplies \subseteq Nat /\ {MaxU64, MaxMinted} \subseteq Nat

VARIABLES
  created,      \* the mint exists
  circulating,       \* supply of the mint
  balance,      \* amounts of the token accounts; 0 where there is none
  minted,       \* sum of the amounts of the events "Token Created" and "Mint"
  asked,        \* sums of the events "Request Qiara Bridge", by their chain
  burned        \* history: what holders burned by themselves

splVars == <<created, circulating, balance, minted, asked, burned>>

SplInit ==
  /\ created = FALSE
  /\ circulating = 0
  /\ balance = [u \in Holders |-> 0]
  /\ minted = 0
  /\ asked = [c \in Chains |-> 0]
  /\ burned = 0

-------------------------------------------------------------------------------
(* The SPL token program *)

\* Supply and balance are added with a check.
MintTo(to, amount) ==
  /\ minted + amount <= MaxMinted
  /\ circulating + amount <= MaxU64
  /\ circulating' = circulating + amount
  /\ balance' = [balance EXCEPT ![to] = balance[to] + amount]

Burn(from, amount) ==
  /\ amount <= balance[from]
  /\ circulating' = circulating - amount
  /\ balance' = [balance EXCEPT ![from] = balance[from] - amount]

Transfer(from, to, amount) ==
  /\ from # to /\ amount <= balance[from]
  /\ balance' = [balance EXCEPT ![from] = balance[from] - amount,
                                ![to] = balance[to] + amount]
  /\ UNCHANGED <<created, circulating, minted, asked, burned>>

BurnOwn(user, amount) ==
  /\ Burn(user, amount)
  /\ burned' = burned + amount
  /\ UNCHANGED <<created, minted, asked>>

-------------------------------------------------------------------------------
(* The program; accounts are named as their structures are *)

\* The mint and the deployer's token account are made, so neither exists.
Initialize == ~created

\* The mint is found by its seeds and is its own authority; anybody signs.
MintMore == created

\* The signer's own token account is charged.
RequestBridge(user, amount) == created /\ Burn(user, amount)

initialize(deployer, initial_supply) ==
  /\ Initialize
  /\ created' = TRUE
  /\ MintTo(deployer, initial_supply)
  /\ minted' = minted + initial_supply
  /\ UNCHANGED <<asked, burned>>

mint_more(to, amount) ==
  /\ MintMore
  /\ MintTo(to, amount)
  /\ minted' = minted + amount
  /\ UNCHANGED <<created, asked, burned>>

\* mutant: what the user has is burned, what it asked for is emitted
request_what_is_left(user, chain, amount) ==
  /\ amount > 0
  /\ RequestBridge(user, IF amount <= balance[user] THEN amount ELSE balance[user])
  /\ asked' = [asked EXCEPT ![chain] = asked[chain] + amount]
  /\ UNCHANGED <<created, minted, burned>>

request_bridge(user, chain, amount) ==
  /\ amount > 0
  /\ RequestBridge(user, amount)
  /\ asked' = [asked EXCEPT ![chain] = asked[chain] + amount]
  /\ UNCHANGED <<created, minted, burned>>

SplNext ==
  \/ \E u \in Holders, amount \in Supplies : initialize(u, amount)
  \/ \E u \in Holders, amount \in Amounts :
       \/ mint_more(u, amount)
       \/ BurnOwn(u, amount)
       \/ \E v \in Holders : Transfer(u, v, amount)
       \/ \E chain \in Chains : request_bridge(u, chain, amount)

SplSpec == SplInit /\ [][SplNext]_splVars

-------------------------------------------------------------------------------
(* Properties *)

\* What other chains are asked for was taken out of circulation here: the
\* events add up to the supply, and the supply is what the holders have,
\* however mints, transfers, burns and requests follow each other, and it
\* stays within its 64 bits (lib.rs:61, 90-101).
TokensAccountedFor ==
  /\ circulating \in 0 .. MaxU64
  /\ circulating = SumFunctionOnSet(balance, Holders)
  /\ minted = circulating + SumFunctionOnSet(asked, Chains) + burned
===============================================================================
