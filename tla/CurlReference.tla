---------------------------- MODULE CurlReference ----------------------------
(***************************************************************************)
(* Curl by its definition, the reference for CurlP (bee-crypto) and for    *)
(* the bit-sliced Curl of bee-pow: trit j of the next state comes from the *)
(* trits at places j and j + 1 of a walk that advances by half the state.  *)
(***************************************************************************)
EXTENDS Integers, Sequences, SequencesExt

CONSTANT HASH_LEN

STATE_LEN == 3 * HASH_LEN
HALF_STATE_LEN == STATE_LEN \div 2

Walk(j) == (j * HALF_STATE_LEN) % STATE_LEN

SBox(a, b) == << <<1, 1, -1>>, <<0, -1, 1>>, <<-1, 0, 0>> >>[a + 2][b + 2]

(* Concatenation makes it a tuple: TLC evaluates its elements once.        *)
OneRound(s) == [j \in 1..STATE_LEN |-> SBox(s[Walk(j - 1) + 1], s[Walk(j) + 1])] \o << >>

Curl(s, rounds) == FoldLeft(LAMBDA r, k : OneRound(r), s, [k \in 1..rounds |-> k])
=============================================================================
