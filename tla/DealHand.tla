------------------------------ MODULE DealHand ------------------------------
(***************************************************************************)
(* dealRandomHand and requestHandSize of 001pun.c.  rand may return any    *)
(* number; a size that is not a number leaves handSize uninitialised.      *)
(***************************************************************************)
EXTENDS Integers, Sequences, FiniteSets

CONSTANTS
  NumSuits, NumRanks,  \* 4 and 13 in C
  MaxSize              \* bound on what handSize is, typed or left there

Sizes == -1 .. MaxSize
Cards == (0 .. NumSuits - 1) \X (0 .. NumRanks - 1)

ASSUME HandAssumption == NumSuits \in Nat /\ NumRanks \in Nat /\ MaxSize \in Nat

VARIABLES
  dealing,      \* "none" before the call, "dealing"
  handSize,
  i,            \* the loop counter
  alreadyDealt,
  hand          \* the cards printed

handVars == <<dealing, handSize, i, alreadyDealt, hand>>

HandInit ==
  dealing = "none" /\ handSize = 0 /\ i = 0 /\ alreadyDealt = {} /\ hand = <<>>

RequestHandSize ==
  /\ dealing = "none" /\ dealing' = "dealing"
  /\ handSize' \in Sizes
  /\ UNCHANGED <<i, alreadyDealt, hand>>

DrawAgain == i  \* mutant
AfterRepeat == i + 1

MarkedSuit(card) == {c \in Cards : c[1] = card[2] /\ c[2] = card[1]}  \* mutant
Marked(card) == {card}

Draw(card) ==
  /\ dealing = "dealing" /\ i < handSize
  /\ IF card \in alreadyDealt
       THEN i' = AfterRepeat /\ UNCHANGED <<alreadyDealt, hand>>
       ELSE /\ i' = i + 1
            /\ alreadyDealt' = alreadyDealt \union Marked(card)
            /\ hand' = Append(hand, card)
  /\ UNCHANGED <<dealing, handSize>>

HandNext == \E card \in Cards : Draw(card)
-----------------------------------------------------------------------------
(* Properties. *)

(* Whatever rand returns, no card is in the hand twice, so that it never   *)
(* has more cards than the deck, nor more than draws were made.            *)
NoCardTwice ==
  /\ \A j, k \in DOMAIN hand : hand[j] = hand[k] => j = k
  /\ Len(hand) <= i
=============================================================================
