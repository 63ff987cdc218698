------------------------------- MODULE Xmodem -------------------------------
(***************************************************************************)
(* The XMODEM receiver of the boot loader, cbl/xmodem.c, at the end of a   *)
(* serial line that garbles and loses packets, with a sender that repeats  *)
(* a packet until it is acknowledged.                                      *)
(*                                                                         *)
(* xmodemInTime() waits for a byte without a timeout, so xmodemInFlush(),  *)
(* which reads until there is none, never returns: wherever the receiver   *)
(* calls it, it swallows what comes from then on.                          *)
(***************************************************************************)
EXTENDS Integers, Sequences

CONSTANTS
  Blocks,      \* packets of the file
  SeqNumbers,  \* sequence numbers are bytes: 2 to the 8
  MaxLine      \* bound on what is on the line in each direction

\* With more on the line than half a cycle of sequence numbers, late ACKs take
\* the sender a whole cycle past the packet the receiver waits for.
ASSUME XmodemAssumption ==
  /\ Blocks \in Nat \ {0} /\ SeqNumbers \in Nat \ {0, 1}
  /\ MaxLine \in Nat /\ 2 * MaxLine <= SeqNumbers

VARIABLES
  seqnum,    \* the sequence number the receiver waits for
  swallows,  \* the receiver is in xmodemInFlush()
  xwritten,  \* history: the blocks given to write()
  toboard,   \* packets on the line: a block number, 0 one that is garbled,
             \* Blocks + 1 the EOT
  tohost,    \* responses on the line: TRUE is an ACK, FALSE is 'C' or garbled
  sending    \* the block the sender sends, Blocks + 1 for the EOT

xmodemVars == <<seqnum, swallows, xwritten, toboard, tohost, sending>>

\* The receiver solicits the connection.
XmodemInit ==
  /\ seqnum = 1 % SeqNumbers /\ swallows = FALSE /\ xwritten = <<>>
  /\ toboard = <<>> /\ tohost = <<FALSE>> /\ sending = 1

Packet == Head(toboard)
IsData(p) == p \in 1..Blocks
-----------------------------------------------------------------------------
\* xmodemReceive() goes round its loop with the packet that came, and answers
\* at the top of the loop.
Answers == tohost' = Append(tohost, TRUE) /\ UNCHANGED swallows
Arrives == ~swallows /\ toboard # <<>> /\ toboard' = Tail(toboard) /\ UNCHANGED sending

AnySequence(p) == TRUE                                              \* mutant

\* The packet has the sequence number the receiver waits for.
IsNext(p) == p % SeqNumbers = seqnum

\* It is the one it waits for: write it, go on to the next number.
XmodemWrites ==
  /\ Arrives /\ IsData(Packet) /\ IsNext(Packet)
  /\ xwritten' = Append(xwritten, Packet)
  /\ seqnum' = (seqnum + 1) % SeqNumbers
  /\ Answers

\* It is the last one, again.
XmodemRepeated ==
  /\ Arrives /\ IsData(Packet) /\ ~IsNext(Packet)
  /\ Packet % SeqNumbers = (seqnum - 1) % SeqNumbers
  /\ Answers
  /\ UNCHANGED <<seqnum, xwritten>>

\* It is out of sequence, corrupt, or the end of the file.
XmodemFlushes ==
  /\ Arrives
  /\ IsData(Packet) => Packet % SeqNumbers \notin {seqnum, (seqnum - 1) % SeqNumbers}
  /\ swallows' = TRUE
  /\ UNCHANGED <<seqnum, xwritten, tohost>>

\* xmodemInFlush().
XmodemSwallows ==
  /\ swallows /\ toboard # <<>>
  /\ toboard' = Tail(toboard)
  /\ UNCHANGED <<seqnum, swallows, xwritten, tohost, sending>>
-----------------------------------------------------------------------------
\* The sender and the line, which are outside of this repository: a packet
\* arrives well, garbled or not at all.
Sent(p) == /\ Len(toboard) < MaxLine /\ Len(tohost) <= MaxLine
           /\ toboard' \in {toboard, Append(toboard, 0), Append(toboard, p)}

\* It goes on to the next packet for an ACK.
HostAcked ==
  /\ tohost # <<>> /\ Head(tohost) /\ sending <= Blocks
  /\ sending' = sending + 1
  /\ tohost' = Tail(tohost)
  /\ Sent(sending + 1)
  /\ UNCHANGED <<seqnum, swallows, xwritten>>

\* It sends the same again: after a response that is none, or a timeout.
HostRepeats ==
  /\ tohost' \in {tohost} \cup IF tohost # <<>> THEN {Tail(tohost)} ELSE {}
  /\ Sent(sending)
  /\ UNCHANGED <<seqnum, swallows, xwritten, sending>>

XmodemNext ==
  \/ XmodemWrites \/ XmodemRepeated \/ XmodemFlushes \/ XmodemSwallows
  \/ HostAcked \/ HostRepeats

XmodemSpec == XmodemInit /\ [][XmodemNext]_xmodemVars
-----------------------------------------------------------------------------
\* What xmodemReceive() writes to memory is the file from its start, each block
\* once and in order, whatever was repeated, garbled, lost or acknowledged late.
XmodemInOrder == \A i \in DOMAIN xwritten : xwritten[i] = i
=============================================================================
