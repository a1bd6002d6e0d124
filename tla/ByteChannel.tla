---------------------------- MODULE ByteChannel ----------------------------
(***************************************************************************)
(* What a ByteQueue promises the two threads that share it: a bounded,     *)
(* first-in first-out channel of bytes between one writer and one reader,  *)
(* which either side, or a third party, may close.  The ring, the head     *)
(* index and the monitor are not visible here.                             *)
(***************************************************************************)
EXTENDS Integers, Sequences

CONSTANTS Byte,        \* the byte values
          Capacity,    \* bytes the channel can hold
          EndOfInput   \* what a read of a closed channel returns (-1)

VARIABLES chan,    \* the bytes in the channel, oldest first
          isOpen,  \* whether close() has not been called
          outbox,  \* bytes of the write in progress not yet in the channel
          wants,   \* buffer length of the read in progress, 0 if none
          inbox    \* what the last read returned

cvars == <<chan, isOpen, outbox, wants, inbox>>

Prefix(s, n) == SubSeq(s, 1, n)
Suffix(s, n) == SubSeq(s, n + 1, Len(s))

ChannelInit ==
  /\ chan = << >>
  /\ isOpen = TRUE
  /\ outbox = << >>
  /\ wants = 0
  /\ inbox = << >>

\* The writer offers data.
Offer ==
  /\ outbox = << >>
  /\ outbox' # << >>
  /\ UNCHANGED <<chan, isOpen, wants, inbox>>

\* As many of the offered bytes as fit enter the channel, in order.
Transfer ==
  /\ isOpen
  /\ \E n \in 1..Len(outbox) :
       /\ Len(chan) + n <= Capacity
       /\ n = Len(outbox) \/ Len(chan) + n = Capacity
       /\ chan' = chan \o Prefix(outbox, n)
       /\ outbox' = Suffix(outbox, n)
  /\ UNCHANGED <<isOpen, wants, inbox>>

\* The write ends without having handed over everything: only when closed.
Abandon ==
  /\ ~isOpen
  /\ outbox # << >>
  /\ outbox' = << >>
  /\ UNCHANGED <<chan, isOpen, wants, inbox>>

\* The reader asks for some bytes.
Ask ==
  /\ wants = 0
  /\ wants' # 0
  /\ UNCHANGED <<chan, isOpen, outbox, inbox>>

\* The reader receives the oldest bytes, as many as there are and it asked for.
Take ==
  /\ wants # 0
  /\ isOpen
  /\ LET n == IF wants < Len(chan) THEN wants ELSE Len(chan)
     IN /\ inbox' = Prefix(chan, n)
        /\ chan' = Suffix(chan, n)
  /\ wants' = 0
  /\ UNCHANGED <<isOpen, outbox>>

\* A closed channel delivers nothing, whatever it still holds.
Refuse ==
  /\ wants # 0
  /\ ~isOpen
  /\ inbox' = EndOfInput
  /\ wants' = 0
  /\ UNCHANGED <<chan, isOpen, outbox>>

Shut ==
  /\ isOpen' = FALSE
  /\ UNCHANGED <<chan, outbox, wants, inbox>>

ChannelNext ==
  Offer \/ Transfer \/ Abandon \/ Ask \/ Take \/ Refuse \/ Shut

ChannelSpec == ChannelInit /\ [][ChannelNext]_cvars
=============================================================================
