------------------------------- MODULE Base62 -------------------------------
(***************************************************************************)
(* pkg/base62/base62.go: the slug of a link without a custom slug is its   *)
(* numeric id in base Base, written as the sequence of its digits.         *)
(* Ids come from a BIGSERIAL column: positive, and below 2^63, so that     *)
(* neither direction overflows.                                            *)
(***************************************************************************)
EXTENDS Integers, Sequences, SequencesExt

CONSTANT Base  \* 62

ASSUME BaseAssumption == Base \in Nat \ {0, 1}

(* The loop of Encode: least significant digit first. *)
Digits[n \in Nat] == IF n = 0 THEN <<>> ELSE <<n % Base>> \o Digits[n \div Base]

(* Slip: the buffer is not reversed. *)
Encode_Unreversed(id) == IF id = 0 THEN <<0>> ELSE Digits[id]

Encode(id) == IF id = 0 THEN <<0>> ELSE Reverse(Digits[id])

(* Decode of a sequence of digits; it refuses every other string. What its *)
(* loop has made of the first k digits:                                    *)
Value(slug) ==
  LET id[k \in 0..Len(slug)] == IF k = 0 THEN 0 ELSE id[k - 1] * Base + slug[k]
  IN  id

Decode(slug) == Value(slug)[Len(slug)]
=============================================================================
