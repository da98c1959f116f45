----------------------------- MODULE FlatMemory -----------------------------
(***************************************************************************)
(* What the address space promises to the instructions that use it: every  *)
(* address is unmapped or names one byte of one bank, read-only or not;    *)
(* an access of several bytes succeeds exactly when its addresses name     *)
(* consecutive bytes of one bank; a read of anything else yields 0 and a   *)
(* write of anything else, or of read-only bytes, changes nothing.  An     *)
(* access that runs past the top of the address space has no defined       *)
(* result, but it changes no byte of a bank.  Nothing is promised from the *)
(* moment on that two regions overlap or one runs past the top.            *)
(***************************************************************************)
EXTENDS Integers, Sequences

CONSTANTS AddrMod, Lengths, Banks, Bytes

Address == 0 .. AddrMod - 1
Unmapped == [bank |-> "unmapped"]

VARIABLES
  where,  (* the byte that each address names *)
  store,  (* the bytes of the banks           *)
  proper, (* no two regions overlap, and none runs past the top *)
  resp    (* the last answer                  *)

vars == <<where, store, proper, resp>>

(* n addresses from a on name consecutive bytes of one bank, all of them
   writable or none. *)
Contiguous(a, n) ==
  /\ a + n <= AddrMod
  /\ where[a] # Unmapped
  /\ \A k \in 0 .. n - 1 :
       where[a + k] = [where[a] EXCEPT !.offset = @ + k]

Init ==
  /\ where = [a \in Address |-> Unmapped]
  /\ store \in [Banks -> [Address -> Bytes]]
  /\ proper = TRUE
  /\ resp = [op |-> "init"]

(* New mappings never disturb old ones. *)
Extend ==
  /\ resp' = [op |-> "add"]
  /\ DOMAIN where' = Address
  /\ \A a \in Address : where[a] # Unmapped => where'[a] = where[a]
  /\ UNCHANGED store

Read(a, n) ==
  /\ a + n <= AddrMod
  /\ resp'.op = "read" /\ resp'.address = a
  /\ resp'.value = [k \in 1 .. n |->
                     IF Contiguous(a, n)
                       THEN store[where[a].bank][where[a].offset + k - 1]
                       ELSE 0]
  /\ UNCHANGED <<where, store>>

Write(a, v) ==
  LET n == Len(v)
      o == where[a].offset
      Store == [k \in Address |-> IF k \in o .. o + n - 1 THEN v[k - o + 1]
                                                         ELSE store[where[a].bank][k]]
  IN /\ a + n <= AddrMod
     /\ resp' = [op |-> "write", address |-> a, value |-> v]
     /\ store' = IF Contiguous(a, n) /\ ~where[a].read_only
                   THEN [store EXCEPT ![where[a].bank] = Store]
                   ELSE store
     /\ UNCHANGED where

(* An access past the top of the address space. *)
Beyond ==
  /\ resp'.op \in {"read", "write"}
  /\ resp'.address + Len(resp'.value) > AddrMod
  /\ UNCHANGED <<where, store>>

(* A pointer is handed out for n bytes from a on exactly when they are
   contiguous; asking for none, or beyond the top, promises nothing. *)
Pointer(a, n) ==
  /\ resp'.op \in {"null", "ptr"} /\ resp'.address = a /\ resp'.length = n
  /\ (n > 0 /\ a + n <= AddrMod) =>
       resp' = IF Contiguous(a, n)
                 THEN [op |-> "ptr", address |-> a, length |-> n,
                       data |-> where[a].bank, offset |-> where[a].offset]
                 ELSE [op |-> "null", address |-> a, length |-> n]
  /\ UNCHANGED <<where, store>>

Next ==
  \/ ~proper'
  \/ Extend
  \/ \E a \in Address, n \in Lengths : Read(a, n)
  \/ \E a \in Address, n \in Lengths :
       resp'.op = "write" /\ \E v \in [1 .. n -> Bytes] : Write(a, v)
  \/ Beyond
  \/ \E a, n \in Address : Pointer(a, n)

Spec == Init /\ [][Next]_vars
==============================================================================
