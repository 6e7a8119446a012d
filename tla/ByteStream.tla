----------------------------- MODULE ByteStream -----------------------------
(***************************************************************************)
(* What a pipe promises: a bounded queue of bytes.  What is written stays  *)
(* in the queue until it is read, in order and once; nothing is written    *)
(* after the read end is closed, and a read returns nothing only if there  *)
(* is nothing.  A lossy pipe takes one thing back: a read that fails may   *)
(* lose bytes, always the oldest ones.                                     *)
(***************************************************************************)
EXTENDS Naturals, Sequences

CONSTANTS
  Byte, Capacity,
  Lossy      (* TRUE: a failing read may take bytes with it                 *)

VARIABLES
  stream,         (* the bytes written and not yet read                     *)
  wopen, ropen,   (* the ends that are open                                 *)
  got             (* what the last read returned                            *)

svars == <<stream, wopen, ropen, got>>

SInit ==
  /\ stream = <<>> /\ wopen = TRUE /\ ropen = TRUE
  /\ got = <<>>

Send ==
  /\ ropen
  /\ \E n \in 1 .. Capacity - Len(stream) : \E s \in [1 .. n -> Byte] :
       stream' = stream \o s
  /\ UNCHANGED <<wopen, ropen, got>>

Receive ==
  /\ \E n \in 1 .. Len(stream) :
       /\ got' = SubSeq(stream, 1, n)
       /\ stream' = SubSeq(stream, n + 1, Len(stream))
  /\ UNCHANGED <<wopen, ropen>>

(* The end of the file, or a reader that was killed while it waited         *)
ReceiveNothing ==
  /\ stream = <<>>
  /\ got' = <<>>
  /\ UNCHANGED <<stream, wopen, ropen>>

(* A read that fails after it has emptied a part of the queue *)
Lose ==
  /\ Lossy
  /\ \E n \in 1 .. Len(stream) : stream' = SubSeq(stream, n + 1, Len(stream))
  /\ got' = <<>>
  /\ UNCHANGED <<wopen, ropen>>

CloseEnd ==
  /\ \/ wopen /\ wopen' = FALSE /\ ropen' = ropen
     \/ ropen /\ ropen' = FALSE /\ wopen' = wopen
  /\ UNCHANGED <<stream, got>>

SNext == Send \/ Receive \/ ReceiveNothing \/ Lose \/ CloseEnd

SSpec == SInit /\ [][SNext]_svars

=============================================================================
