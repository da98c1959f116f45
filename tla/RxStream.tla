------------------------------ MODULE RxStream ------------------------------
(***************************************************************************)
(* The framing between t2sim-gdbserver and DebuggingProtocol.py: what      *)
(* tx_frame sends and what the tokenizer of the client makes of a stream   *)
(* that arrives in pieces.  A stream is a sequence of symbols; the payload *)
(* of a reply is at most one symbol, a record.                             *)
(***************************************************************************)
EXTENDS Integers, Sequences, SequencesExt

Byte(b) == [byte |-> b]
Plus == Byte("+")
Dollar == Byte("$")
Hash == Byte("#")
Digit == Byte("digit")   (* a digit of the checksum, which nobody compares *)

(* tx_frame, with payload a sequence of at most one symbol. *)
tx_frame(payload) == <<Plus, Dollar>> \o payload \o <<Hash, Digit, Digit>>

(* How the server says no. *)
Refusal == <<Byte("-")>>

(* The index of the first '#' from index i on, 0 when there is none. *)
HashIndex(data, i) ==
  LET at == {j \in i .. Len(data) : data[j] = Hash}
  IN IF at = {} THEN 0 ELSE CHOOSE j \in at : \A k \in at : j <= k

Complete_AtHash(data, i) ==   (* does not wait for the checksum *)
  /\ Len(data) - i + 1 >= 5
  /\ data[i + 1] = Dollar
  /\ HashIndex(data, i) # 0

(* The frame that starts with '+' at index i is there with its checksum. *)
Complete(data, i) ==
  /\ Len(data) - i + 1 >= 5
  /\ data[i + 1] = Dollar
  /\ HashIndex(data, i) # 0
  /\ Len(data) >= HashIndex(data, i) + 2

(* The token at index i of data: nothing more, or an incomplete frame that stays for
   the next call; a frame; or a byte that is not the start of one, a failed message
   of its own. *)
Ends(data, i) == i > Len(data) \/ (data[i] = Plus /\ ~Complete(data, i))

Token(data, i) ==
  IF data[i] = Plus
    THEN [success |-> TRUE, data |-> SubSeq(data, i + 2, HashIndex(data, i) - 1)]
    ELSE [success |-> FALSE, data |-> <<>>]

NextIndex(data, i) ==
  IF data[i] = Plus
    THEN IF HashIndex(data, i) + 3 > Len(data) + 1 THEN Len(data) + 1 ELSE HashIndex(data, i) + 3
    ELSE i + 1

(* DebuggingProtocol._tokenizer: the messages in data and what is left of it. *)
tokenizer(data) ==
  LET scan[i \in 1 .. Len(data) + 1] ==
        IF Ends(data, i) THEN [msgs |-> <<>>, remaining |-> SubSeq(data, i, Len(data))]
        ELSE LET rest == scan[NextIndex(data, i)]
             IN [msgs |-> <<Token(data, i)>> \o rest.msgs, remaining |-> rest.remaining]
  IN scan[1]
=============================================================================
