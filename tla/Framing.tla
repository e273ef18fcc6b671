------------------------------- MODULE Framing -------------------------------
(***************************************************************************)
(* One direction of a connection, byte by byte: the end of send_msg and of *)
(* recv_msg (session/internal.rs) and the reader extensions of io.rs.      *)
(*                                                                         *)
(* A send encodes its message, takes the writer's mutex and calls          *)
(* write_all, which hands the writer as many bytes at a time as it takes.  *)
(* Nothing delimits messages but the encoding.  A receive holds the        *)
(* reader's mutex and calls consume_syrup: it looks at the bytes that are  *)
(* in the reader's buffer (fill_buf reads from the connection only if the  *)
(* buffer is empty), consumes a message that is there as a whole, and      *)
(* tries again if there is only a part of one.                             *)
(***************************************************************************)
EXTENDS Sequences, Naturals

CONSTANTS
    Writers,     \* tasks that send
    Messages,
    Menu,        \* messages each task may send
    Length,      \* number of bytes of an encoded message
    Torn,        \* in place of a message that was cut short
    Junk,        \* what the tokenizer may make of bytes that are no message
    BufCap,      \* capacity of the reader's buffer: 8 KiB for tokio's BufReader
    WireCap,     \* bytes the connection holds
    NoTask,
    MaxSends     \* bound: sends begun

(* An encoded message has at least one byte.                                *)
ASSUME MessagesAssumption ==
    /\ Length \in [Messages -> Nat \ {0}]
    /\ Torn \notin Messages
    /\ NoTask \notin Writers

ASSUME MenuAssumption ==
    /\ Messages # {}
    /\ Menu \in [Writers -> SUBSET Messages]

ASSUME BoundsAssumption ==
    /\ BufCap \in Nat \ {0}
    /\ WireCap \in Nat \ {0}
    /\ MaxSends \in Nat

VARIABLES
    buffered,   \* the writer may keep bytes until it is flushed (DataWriter)
    wire,       \* bytes written so far: <<message, index>>
    passed,     \* number of them that the writer has passed on
    filled,     \* number of them that were read into the reader's buffer
    consumed,   \* number of them that were consumed
    writer,     \* task that holds the writer's mutex
    pc,         \* where each writing task is
    msg,        \* message it sends
    off,        \* bytes of it that were written
    closed,     \* the writing half was dropped
    rpc,        \* where the task that holds the reader's mutex is
    sends,      \* sends begun so far
    frames,     \* history: messages written, Torn for those cut short
    starts,     \* history: where in wire each of them, and the next, begins
    got         \* history: what consume_syrup has returned

writing == <<wire, writer, pc, msg, off, frames, starts>>
vars == <<buffered, passed, filled, consumed, closed, rpc, sends, got, writing>>

Init ==
    /\ buffered \in BOOLEAN
    /\ wire = <<>>
    /\ passed = 0
    /\ filled = 0
    /\ consumed = 0
    /\ writer = NoTask
    /\ pc = [w \in Writers |-> "idle"]
    /\ msg = [w \in Writers |-> CHOOSE m \in Messages : TRUE]
    /\ off = [w \in Writers |-> 0]
    /\ closed = FALSE
    /\ rpc = "idle"
    /\ sends = 0
    /\ frames = <<>>
    /\ starts = <<0>>
    /\ got = <<>>

-----------------------------------------------------------------------------
(* send_msg, past its check of the abort flags.                             *)
Send(w, m) ==
    /\ pc[w] = "idle"
    /\ ~closed
    /\ sends < MaxSends
    /\ sends' = sends + 1
    /\ msg' = [msg EXCEPT ![w] = m]
    /\ off' = [off EXCEPT ![w] = 0]
    /\ pc' = [pc EXCEPT ![w] = "lock"]
    /\ UNCHANGED <<buffered, wire, passed, filled, consumed, writer, closed, rpc,
                   frames, starts, got>>

(* Mutant: the mutex is only held while a piece is written.                 *)
LockWriterShared(w) ==
    /\ pc[w] = "lock"
    /\ writer' = w
    /\ pc' = [pc EXCEPT ![w] = "write"]
    /\ UNCHANGED <<buffered, wire, passed, filled, consumed, msg, off, closed, rpc, sends,
                   frames, starts, got>>

(* self.writer.lock().await.                                                *)
LockWriter(w) ==
    /\ pc[w] = "lock"
    /\ writer = NoTask
    /\ writer' = w
    /\ pc' = [pc EXCEPT ![w] = "write"]
    /\ UNCHANGED <<buffered, wire, passed, filled, consumed, msg, off, closed, rpc, sends,
                   frames, starts, got>>

(* write_all: one more byte.  The guard is dropped after the last one;      *)
(* send_msg does not flush.                                                 *)
Write(w) ==
    LET last == off[w] + 1 = Length[msg[w]] IN
    /\ pc[w] = "write"
    /\ Len(wire) - filled < WireCap
    /\ wire' = Append(wire, <<msg[w], off[w] + 1>>)
    /\ off' = [off EXCEPT ![w] = @ + 1]
    /\ pc' = [pc EXCEPT ![w] = IF last THEN "idle" ELSE "write"]
    /\ writer' = IF last THEN NoTask ELSE writer
    /\ frames' = IF last THEN Append(frames, msg[w]) ELSE frames
    /\ starts' = IF last THEN Append(starts, Len(wire) + 1) ELSE starts
    /\ UNCHANGED <<buffered, passed, filled, consumed, msg, closed, rpc, sends, got>>

(* The write fails, or the future of the send is dropped while it waits:    *)
(* the guard is dropped and what was written stays.                         *)
CutShort(w) ==
    /\ pc[w] \in {"lock", "write"}
    /\ pc' = [pc EXCEPT ![w] = "idle"]
    /\ writer' = IF pc[w] = "write" THEN NoTask ELSE writer
    /\ frames' = IF off[w] > 0 THEN Append(frames, Torn) ELSE frames
    /\ starts' = IF off[w] > 0 THEN Append(starts, Len(wire)) ELSE starts
    /\ UNCHANGED <<buffered, wire, passed, filled, consumed, msg, off, closed, rpc, sends, got>>

(* The last handle of the session is dropped.                               *)
Close ==
    /\ ~closed
    /\ \A w \in Writers : pc[w] = "idle"
    /\ closed' = TRUE
    /\ UNCHANGED <<buffered, passed, filled, consumed, rpc, sends, got, writing>>

(* Written bytes travel, any number at a time.                              *)
PassOn ==
    /\ passed < Len(wire)
    /\ passed' \in (passed + 1)..Len(wire)
    /\ UNCHANGED <<buffered, filled, consumed, closed, rpc, sends, got, writing>>

-----------------------------------------------------------------------------
(* recv_msg takes the reader's mutex and calls consume_syrup.               *)
Recv ==
    /\ rpc = "idle"
    /\ rpc' = "fill"
    /\ UNCHANGED <<buffered, passed, filled, consumed, closed, sends, got, writing>>

(* The future of the receive is dropped while fill_buf is pending.          *)
CancelRecv ==
    /\ rpc = "fill"
    /\ filled = consumed
    /\ rpc' = "idle"
    /\ UNCHANGED <<buffered, passed, filled, consumed, closed, sends, got, writing>>

Lesser(m, n) == IF m <= n THEN m ELSE n

(* fill_buf: a buffer that is not empty is returned as it is; an empty one  *)
(* is filled with what has come, or stays empty at the end of the stream.   *)
FillBuf ==
    /\ rpc = "fill"
    /\ \/ /\ filled > consumed
          /\ UNCHANGED filled
       \/ /\ filled = consumed
          /\ filled < passed
          /\ filled' = Lesser(passed, consumed + BufCap)
       \/ /\ filled = consumed
          /\ filled = Len(wire)
          /\ closed
          /\ UNCHANGED filled
    /\ rpc' = "lex"
    /\ UNCHANGED <<buffered, passed, consumed, closed, sends, got, writing>>

(* The buffer begins with the message m, or is a part of it that begins     *)
(* with its first byte.                                                     *)
FrontWhole(m) ==
    /\ Length[m] <= filled - consumed
    /\ \A i \in 1..Length[m] : wire[consumed + i] = <<m, i>>

FrontPartial(m) ==
    /\ filled - consumed < Length[m]
    /\ \A i \in 1..(filled - consumed) : wire[consumed + i] = <<m, i>>

Malformed == \A m \in Messages : ~FrontWhole(m) /\ ~FrontPartial(m)

(* Mutant: the whole buffer is consumed with the message.                   *)
TokenizeDrain ==
    \E m \in Messages :
        /\ FrontWhole(m)
        /\ consumed' = filled
        /\ got' = Append(got, m)
        /\ rpc' = "idle"

(* Mutant: one byte too many is consumed.                                   *)
TokenizeBeyond ==
    \E m \in Messages :
        /\ FrontWhole(m)
        /\ consumed' = consumed + Length[m] + 1
        /\ got' = Append(got, m)
        /\ rpc' = "idle"

(* try_consume_syrup finds a message: consume(amt_read).                    *)
Tokenize ==
    \E m \in Messages :
        /\ FrontWhole(m)
        /\ consumed' = consumed + Length[m]
        /\ got' = Append(got, m)
        /\ rpc' = "idle"

(* LexErrorKind::Incomplete: consume_syrup tries again.                     *)
Incomplete ==
    /\ \E m \in Messages : FrontPartial(m)
    /\ rpc' = "fill"
    /\ UNCHANGED <<consumed, got>>

(* The rest of a message that was cut short, and what follows it, may be an *)
(* error, which consumes nothing, may look incomplete, or may make up a     *)
(* tree of its own.                                                         *)
LexError ==
    /\ Malformed
    /\ \/ rpc' \in {"idle", "fill"} /\ UNCHANGED <<consumed, got>>
       \/ /\ consumed' \in (consumed + 1)..filled
          /\ got' = Append(got, Junk)
          /\ rpc' = "idle"

Lex ==
    /\ rpc = "lex"
    /\ Tokenize \/ Incomplete \/ LexError
    /\ UNCHANGED <<buffered, passed, filled, closed, sends, writing>>

-----------------------------------------------------------------------------
Next ==
    \/ \E w \in Writers :
          \/ \E m \in Menu[w] : Send(w, m)
          \/ LockWriter(w) \/ Write(w) \/ CutShort(w)
    \/ Close \/ PassOn
    \/ Recv \/ CancelRecv \/ FillBuf \/ Lex

Spec == Init /\ [][Next]_vars

(* A connection without a write buffer delivers, and the receiving side     *)
(* keeps receiving and does not give up every receive before it has looked  *)
(* at what came.  Nothing is assumed of the senders.                        *)
Fairness ==
    /\ WF_vars(~buffered /\ PassOn)
    /\ WF_vars(Recv) /\ SF_vars(FillBuf) /\ WF_vars(Lex)

FairSpec == Spec /\ Fairness

-----------------------------------------------------------------------------
(* Type invariant: the connection, the buffer and the tasks.                *)
TypeOK ==
    /\ buffered \in BOOLEAN
    /\ wire \in Seq(Messages \X Nat)
    /\ passed \in 0..Len(wire)
    /\ filled \in 0..passed
    /\ consumed \in 0..filled
    /\ writer \in Writers \cup {NoTask}
    /\ pc \in [Writers -> {"idle", "lock", "write"}]
    /\ msg \in [Writers -> Messages]
    /\ off \in [Writers -> Nat]
    /\ closed \in BOOLEAN
    /\ rpc \in {"idle", "fill", "lex"}
    /\ sends \in Nat
    /\ frames \in Seq(Messages \cup {Torn})
    /\ starts \in Seq(Nat)
    /\ got \in Seq(Messages \cup {Junk})

(* The mutex is held by the one task that writes, and a task that waits for *)
(* it has written nothing.                                                  *)
MutexOwned ==
    \A w \in Writers :
        /\ pc[w] = "write" <=> writer = w
        /\ pc[w] = "lock" => off[w] = 0

(* Where the message that is being written, or the next one, begins.        *)
Open == starts[Len(starts)]

(* wire is the messages of frames one after the other ...                   *)
FramesLaid ==
    /\ Len(starts) = Len(frames) + 1
    /\ \A n \in DOMAIN starts : starts[n] <= Open
    /\ \A n \in DOMAIN frames : frames[n] # Torn =>
          /\ starts[n + 1] = starts[n] + Length[frames[n]]
          /\ \A i \in 1..Length[frames[n]] : wire[starts[n] + i] = <<frames[n], i>>

(* ... and then what the holder of the mutex has written of its own.        *)
OpenLaid ==
    /\ writer = NoTask => Len(wire) = Open
    /\ \A w \in Writers : pc[w] = "write" =>
          /\ Len(wire) = Open + off[w]
          /\ off[w] < Length[msg[w]]
          /\ \A i \in 1..off[w] : wire[Open + i] = <<msg[w], i>>

(* As long as nothing that was returned was cut short, the reader is at the *)
(* beginning of the message after the ones it has returned.                 *)
Aligned ==
    (\A n \in 1..Len(got) : n \in DOMAIN frames => frames[n] # Torn)
        => Len(got) + 1 \in DOMAIN starts /\ consumed = starts[Len(got) + 1]

(* The inductive invariant of FramingProofs.                                *)
Inv == TypeOK /\ MutexOwned /\ FramesLaid /\ OpenLaid /\ Aligned

(* The bytes implement a channel of whole messages: pieces of concurrent    *)
(* sends do not mix, a message is returned once, whole and in its turn,     *)
(* however its bytes arrive and whenever a receive is given up, up to the   *)
(* first send that was cut short.                                           *)
C == INSTANCE Channel
IsChannel == C!Spec

-----------------------------------------------------------------------------
(* The buffer holds a part of a message.                                    *)
Spinning == filled > consumed /\ \E m \in Messages : FrontPartial(m)

(* A message that was written in full, with nothing cut short before it, is *)
(* received, unless the writer keeps it because nobody flushes, or the      *)
(* reader spins on a part of a message: if a message is not in the buffer   *)
(* as a whole when the reader first looks at it, nothing is received any    *)
(* more.                                                                    *)
ReceivesComplete ==
    \A n \in 1..MaxSends :
        [](n \in DOMAIN frames /\ (\A k \in 1..n : frames[k] # Torn)
              => <>(\/ Len(got) >= n
                    \/ []Spinning
                    \/ [](buffered /\ passed < Len(wire))))

=============================================================================
