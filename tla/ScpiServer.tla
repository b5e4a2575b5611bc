--------------------------- MODULE ScpiServer ---------------------------
(***************************************************************************)
(* The SCPI server thread (Server.java) with the answers it writes         *)
(* (ServerControl.writeLargeData and writeDMData).  One thread selects     *)
(* ready keys and processes them one at a time.  A read translates the     *)
(* command, attaches the translation to the key and turns the key's        *)
(* interest to writing; what kind of answer is due is NOT kept with the    *)
(* key but in three flags of the server, shared by all clients.            *)
(*                                                                         *)
(* The thread is followed write by write: peers send, read and hang up     *)
(* between any two of its steps.                                           *)
(***************************************************************************)
EXTENDS ScpiWire

CONSTANTS Listener,   \* the key of the server socket
          AdcSizes,   \* blocks in the data the application gives for *ADC?
          AdcMayFail, \* TRUE: the application may have no data (null)
          DmSizes,    \* blocks in the deep memory file
          DataBlock   \* blocks writeLargeData hands to one write

VARIABLES
  conn,             \* the server's end of a connection
  interest,         \* interest[c]: the key's interest operation
  attach,           \* attach[c]: the key's attachment
  selected,         \* the keys of this round not processed yet
  pc,               \* where the thread is
  onlargeTransmit, onDmTransmit, isRemoteTransmit,  \* the shared flags
  mode,             \* which answer is being written
  writer,           \* to which connection
  cmds,             \* commands writeLargeData was not called for yet
  plan              \* channel.write calls still to make

serverVars == <<conn, interest, attach, selected, pc, onlargeTransmit,
                onDmTransmit, isRemoteTransmit, mode, writer, cmds, plan>>
flagVars == <<onlargeTransmit, onDmTransmit, isRemoteTransmit>>
answerVars == <<mode, writer, cmds, plan>>
vars == <<wireVars, serverVars>>

ASSUME ListenerAssumption == Listener \notin Conns
ASSUME AdcSizesAssumption == AdcSizes \subseteq Nat /\ AdcMayFail \in BOOLEAN
ASSUME DmSizesAssumption == DmSizes \subseteq Nat
ASSUME DataBlockAssumption == DataBlock \in Nat \ {0}

NoReply == [reqs |-> <<>>, units |-> <<>>]

\* A call of channel.write, or a loop of calls until all is written.
Write == [toks : Seq(Token), loop : BOOLEAN]

Tok(t, r, n) == [tok |-> t, of |-> r, n |-> n]
Once(t) == [toks |-> <<t>>, loop |-> FALSE]
Line(r) == <<Once(Tok("text", r, 0))>>

\* "#", the length and a newline, one write each, then n blocks of data.
Header(r, n) ==
  <<Once(Tok("hash", r, 0)), Once(Tok("len", r, n)), Once(Tok("nl", r, 0))>>
Data(r, n) == [toks |-> [i \in 1..n |-> Tok("data", r, 0)], loop |-> TRUE]
\* Mutant: the data goes into one write, which need not write it all.
FrameOnce(r, n) == Header(r, n) \o <<[Data(r, n) EXCEPT !.loop = FALSE]>>
Frame(r, n) == IF n = 0 THEN Header(r, n) ELSE Header(r, n) \o <<Data(r, n)>>

\* What writeLargeData writes for null: length 0, and no newline.
NullFrame(r) == <<Once(Tok("hash", r, 0)), Once(Tok("len", r, 0))>>

-----------------------------------------------------------------------------
(* Selecting.                                                              *)

KeyReady(c) == /\ conn[c] = "open"
               /\ \/ interest[c] = "read" /\ Readable(c)
                  \/ interest[c] = "write" /\ Writable(c)

Waiting(c) == conn[c] = "none" /\ peer[c] # "absent"

Ready == {c \in Conns : KeyReady(c)}
           \cup (IF \E c \in Conns : Waiting(c) THEN {Listener} ELSE {})

\* selector.select() returns once some key is ready.
Select ==
  /\ pc = "loop" /\ selected = {} /\ Ready # {}
  /\ selected' = Ready
  /\ UNCHANGED <<wireVars, conn, interest, attach, pc, flagVars, answerVars>>

\* Mutant: the key stays in the selected set (no iter.remove()).
AcceptAgain(c) ==
  /\ pc = "loop" /\ Listener \in selected /\ Waiting(c)
  /\ conn' = [conn EXCEPT ![c] = "open"]
  /\ interest' = [interest EXCEPT ![c] = "read"]
  /\ UNCHANGED <<wireVars, attach, selected, pc, flagVars, answerVars>>

\* Mutant: the client is registered with the listener's operation.
AcceptForAccept(c) ==
  /\ pc = "loop" /\ Listener \in selected /\ Waiting(c)
  /\ selected' = selected \ {Listener}
  /\ conn' = [conn EXCEPT ![c] = "open"]
  /\ interest' = [interest EXCEPT ![c] = "accept"]
  /\ UNCHANGED <<wireVars, attach, pc, flagVars, answerVars>>

\* process(key) for the server socket: register the new client for reading.
Accept(c) ==
  /\ pc = "loop" /\ Listener \in selected /\ Waiting(c)
  /\ selected' = selected \ {Listener}
  /\ conn' = [conn EXCEPT ![c] = "open"]
  /\ interest' = [interest EXCEPT ![c] = "read"]
  /\ UNCHANGED <<wireVars, attach, pc, flagVars, answerVars>>

-----------------------------------------------------------------------------
(* Reading: translation sets the flags in the order of the units.          *)

Last(us, S) == CHOOSE i \in 1..Len(us) :
                 us[i] \in S /\ \A j \in i + 1..Len(us) : us[j] \notin S
Has(us, S) == \E i \in 1..Len(us) : us[i] \in S

\* dealADC_CMDs for every unit of a translation
SetFlags(us) ==
  /\ onlargeTransmit' = (onlargeTransmit \/ Has(us, {"adc"}))
  /\ onDmTransmit' = (onDmTransmit \/ Has(us, {"ldm", "rdm"}))
  /\ isRemoteTransmit' = IF Has(us, {"ldm", "rdm"})
                         THEN us[Last(us, {"ldm", "rdm"})] = "rdm"
                         ELSE isRemoteTransmit

Reading(c) == /\ pc = "loop" /\ c \in selected /\ interest[c] = "read"
              /\ selected' = selected \ {c}

\* A segment is read and translated; the key waits to write the answer,
\* unless the translation is empty.
Read(c) ==
  /\ Reading(c)
  /\ inbox[c] # <<>>
  /\ inbox' = [inbox EXCEPT ![c] = Tail(@)]
  /\ LET seg == Head(inbox[c]) IN
       /\ SetFlags(seg.units)
       /\ IF seg.units = <<"mute">>
          THEN UNCHANGED <<interest, attach>>
          ELSE /\ interest' = [interest EXCEPT ![c] = "write"]
               /\ attach' = [attach EXCEPT ![c] = seg]
  /\ UNCHANGED <<peer, outbox, sent, conn, pc, answerVars>>

\* End of stream, or an exception of client.read: the channel is closed.
ReadClose(c) ==
  /\ Reading(c)
  /\ peer[c] = "gone"
  /\ conn' = [conn EXCEPT ![c] = "closed"]
  /\ interest' = [interest EXCEPT ![c] = "none"]
  /\ attach' = [attach EXCEPT ![c] = NoReply]
  /\ inbox' = [inbox EXCEPT ![c] = <<>>]
  /\ UNCHANGED <<peer, outbox, sent, pc, flagVars, answerVars>>

-----------------------------------------------------------------------------
(* Answering.  The flags decide, whatever is attached.                     *)

Answering(c) ==
  /\ pc = "loop" /\ c \in selected /\ interest[c] = "write"
  /\ selected' = selected \ {c}
  /\ writer' = c
  /\ UNCHANGED <<wireVars, conn, interest, attach, flagVars>>

\* split(";") leaves out the empty pieces behind the n-th.
SplitEnds(us, n) == /\ n > 0 => us[n] # "mute"
                    /\ \A i \in n + 1..Len(us) : us[i] = "mute"

AnswerLarge(c) ==
  /\ Answering(c)
  /\ onlargeTransmit
  /\ \E n \in 0..Len(attach[c].units) :
       /\ SplitEnds(attach[c].units, n)
       /\ cmds' = SubSeq(attach[c].units, 1, n)
  /\ mode' = "large" /\ plan' = <<>> /\ pc' = "write"

AnswerDm(c) ==
  /\ Answering(c)
  /\ ~onlargeTransmit /\ onDmTransmit
  /\ mode' = "dm" /\ cmds' = <<>> /\ plan' = <<>> /\ pc' = "dm"

AnswerText(c) ==
  /\ Answering(c)
  /\ ~onlargeTransmit /\ ~onDmTransmit
  /\ mode' = "text" /\ cmds' = <<>> /\ plan' = Line(attach[c]) /\ pc' = "write"

\* writeLargeData for the next ";"-separated piece.  A transfer's own ";"
\* leaves an empty piece behind it unless it comes last; the application has
\* data for *ADC? pieces only.
GetData ==
  /\ pc = "write" /\ mode = "large" /\ plan = <<>> /\ cmds # <<>>
  /\ LET r == attach[writer]
         u == Head(cmds)
         after == IF u \in BinaryUnits /\ Len(cmds) > 1 THEN NullFrame(r)
                                                        ELSE <<>>
     IN \/ \E n \in AdcSizes : u = "adc" /\ plan' = Frame(r, n) \o after
        \/ (u # "adc" \/ AdcMayFail) /\ plan' = NullFrame(r) \o after
  /\ cmds' = Tail(cmds)
  /\ UNCHANGED <<wireVars, conn, interest, attach, selected, pc, flagVars,
                 mode, writer>>

DmStep == /\ pc = "dm"
          /\ UNCHANGED <<wireVars, conn, interest, attach, selected, flagVars,
                         writer, cmds>>

\* The oscilloscope is offline, the file cannot be copied, or the file was
\* saved where the line says: one line of text.  For a local save the path is
\* cut out of the attached text, which must have five characters.
DmLine ==
  /\ DmStep
  /\ plan' = Line(attach[writer]) /\ mode' = "dm" /\ pc' = "write"

\* substring("*LDM?".length()) of a text shorter than that, its ";" removed:
\* the exception is caught nowhere and ends the thread.  (Short answers may
\* have five characters together; then DmLine is what happens.)
DmShort ==
  /\ DmStep
  /\ ~isRemoteTransmit
  /\ \A i \in 1..Len(attach[writer].units) :
       attach[writer].units[i] \in {"short", "mute"}
  /\ pc' = "dead"
  /\ UNCHANGED <<mode, plan>>

DmRemote ==
  /\ DmStep
  /\ isRemoteTransmit
  /\ \E n \in DmSizes : plan' = Frame(attach[writer], n)
  /\ mode' = "remote" /\ pc' = "write"

-----------------------------------------------------------------------------
(* The writes.                                                             *)

Smaller(a, b) == IF a <= b THEN a ELSE b

\* What one write is given: writeLargeData cuts the data in blocks.
Offered(w) == IF mode = "large" THEN Smaller(DataBlock, Len(w.toks))
                                ELSE Len(w.toks)

\* What is left to write after w put k tokens in the buffer: only the loops
\* try again.
PlanAfter(w, k) ==
  IF w.loop /\ k < Len(w.toks)
  THEN <<[w EXCEPT !.toks = SubSeq(@, k + 1, Len(@))]>> \o Tail(plan)
  ELSE Tail(plan)

Writing == /\ pc = "write" /\ plan # <<>>
           /\ UNCHANGED <<peer, inbox, sent, conn, interest, attach, selected,
                          flagVars, writer, cmds>>

\* channel.write puts what fits into the buffer.  A loop that writes nothing
\* comes round again, and the thread does nothing else meanwhile.
ChannelWrite ==
  /\ Writing
  /\ peer[writer] # "gone"
  /\ LET w == Head(plan)
         k == Smaller(Offered(w), Room(writer))
     IN /\ w.loop /\ w.toks # <<>> => k > 0
        /\ outbox' = [outbox EXCEPT ![writer] = @ \o SubSeq(w.toks, 1, k)]
        /\ plan' = PlanAfter(w, k)
  /\ UNCHANGED <<pc, mode>>

\* The peer is gone and the system has not noticed: the bytes go nowhere.
WriteVoid ==
  /\ Writing
  /\ peer[writer] = "gone"
  /\ plan' = PlanAfter(Head(plan), Offered(Head(plan)))
  /\ UNCHANGED <<outbox, pc, mode>>

\* The peer is gone: IOException.  Only remote_dm_transmit catches it, to
\* write a failure line on the same channel; listen() ends otherwise, for
\* all clients.
WriteFails ==
  /\ Writing
  /\ peer[writer] = "gone"
  /\ IF mode = "remote"
     THEN plan' = Line(attach[writer]) /\ mode' = "dm" /\ pc' = pc
     ELSE pc' = "dead" /\ UNCHANGED <<plan, mode>>
  /\ UNCHANGED outbox

\* Mutants: a flag is not reset, the key is left writing, or is not
\* registered again.
Finishing(large, dm, remote, op) ==
  /\ pc = "write" /\ plan = <<>> /\ cmds = <<>>
  /\ onlargeTransmit' = large /\ onDmTransmit' = dm
  /\ isRemoteTransmit' = remote
  /\ interest' = [interest EXCEPT ![writer] = op]
  /\ attach' = IF op = "write" THEN attach
                               ELSE [attach EXCEPT ![writer] = NoReply]
  /\ mode' = "none" /\ pc' = "loop"
  /\ UNCHANGED <<wireVars, conn, selected, writer, cmds, plan>>
LargeKept == onlargeTransmit /\ mode # "large"
DmKept == onDmTransmit /\ mode \notin {"dm", "remote"}
RemoteKept == isRemoteTransmit /\ mode \notin {"dm", "remote"}
FinishKeepsLarge == Finishing(onlargeTransmit, DmKept, RemoteKept, "read")
FinishKeepsDm == Finishing(LargeKept, onDmTransmit, RemoteKept, "read")
FinishKeepsRemote == Finishing(LargeKept, DmKept, isRemoteTransmit, "read")
FinishKeepsWriting == Finishing(LargeKept, DmKept, RemoteKept, "write")
FinishDropsKey == Finishing(LargeKept, DmKept, RemoteKept, "none")

\* The answer is written: its flags are reset and the key registered for
\* reading again, which also drops the attachment.
Finish ==
  /\ pc = "write" /\ plan = <<>> /\ cmds = <<>>
  /\ onlargeTransmit' = (onlargeTransmit /\ mode # "large")
  /\ onDmTransmit' = (onDmTransmit /\ mode \notin {"dm", "remote"})
  /\ isRemoteTransmit' = (isRemoteTransmit /\ mode \notin {"dm", "remote"})
  /\ interest' = [interest EXCEPT ![writer] = "read"]
  /\ attach' = [attach EXCEPT ![writer] = NoReply]
  /\ mode' = "none" /\ pc' = "loop"
  /\ UNCHANGED <<wireVars, conn, selected, writer, cmds, plan>>

-----------------------------------------------------------------------------
ServerStep ==
  \/ Select
  \/ \E c \in Conns : \/ Accept(c)
                      \/ Read(c) \/ ReadClose(c)
                      \/ AnswerLarge(c) \/ AnswerDm(c) \/ AnswerText(c)
  \/ GetData
  \/ DmLine \/ DmShort \/ DmRemote
  \/ ChannelWrite \/ WriteVoid \/ WriteFails
  \/ Finish

\* Peers that may do anything a TCP client can.
PeerStep ==
  \E c \in Conns : \/ Connect(c) /\ UNCHANGED serverVars
                   \/ \E l \in Lines : Send(c, l) /\ UNCHANGED serverVars
                   \/ Take(c) /\ UNCHANGED serverVars
                   \/ Hangup(c) /\ UNCHANGED serverVars

ServerInit ==
  /\ conn = [c \in Conns |-> "none"]
  /\ interest = [c \in Conns |-> "none"]
  /\ attach = [c \in Conns |-> NoReply]
  /\ selected = {}
  /\ pc = "loop"
  /\ onlargeTransmit = FALSE /\ onDmTransmit = FALSE
  /\ isRemoteTransmit = FALSE
  /\ mode = "none" /\ writer = Listener /\ cmds = <<>> /\ plan = <<>>

Init == WireInit /\ ServerInit
Next == ServerStep \/ PeerStep
Spec == Init /\ [][Next]_vars

\* The operating system runs the thread; no peer owes the server anything.
FairSpec == Spec /\ WF_vars(ServerStep)
-----------------------------------------------------------------------------
(* Properties.                                                             *)

TypeOK ==
  /\ WireTypeOK
  /\ conn \in [Conns -> {"none", "open", "closed"}]
  /\ interest \in [Conns -> {"none", "read", "write"}]
  /\ attach \in [Conns -> Segment]
  /\ selected \subseteq Conns \cup {Listener}
  /\ pc \in {"loop", "dm", "write", "dead"}
  /\ onlargeTransmit \in BOOLEAN /\ onDmTransmit \in BOOLEAN
  /\ isRemoteTransmit \in BOOLEAN
  /\ mode \in {"none", "large", "dm", "remote", "text"}
  /\ writer \in Conns \cup {Listener}
  /\ cmds \in Seq(Units) /\ plan \in Seq(Write)

\* The answer of c is being written.
Busy(c) == pc \in {"dm", "write", "dead"} /\ mode # "none" /\ writer = c

\* The tokens of a plan (of at most four writes), and the stream of tokens on
\* its way to c or planned for it.
Toks(p, i) == IF i <= Len(p) THEN p[i].toks ELSE <<>>
Flat(p) == Toks(p, 1) \o (Toks(p, 2) \o (Toks(p, 3) \o Toks(p, 4)))
Stream(c) == outbox[c] \o (IF Busy(c) THEN Flat(plan) ELSE <<>>)

\* A key selected at the start of a round is still ready when its turn comes,
\* however many answers were written and peers came and went in between: no
\* accept() returns null, no read finds nothing (read() = 0 would close the
\* client), and every answer starts with room for its header.
SelectedStillReady ==
  /\ \A c \in selected \cap Conns : KeyReady(c)
  /\ Listener \in selected => \E c \in Conns : Waiting(c)

\* An answer is waiting whose translation starts with a transfer.
PendingBinary(c) ==
  interest[c] = "write" /\ attach[c].units[1] \in BinaryUnits

\* The shared flags never outlive the requests that set them: a flag is set
\* only while some client still waits for an answer to a transfer, and both
\* kinds only while two do.  (A flag left over would turn the next client's
\* text answer into a frame.)
FlagsBacked ==
  /\ onlargeTransmit \/ onDmTransmit => \E c \in Conns : PendingBinary(c)
  /\ onlargeTransmit /\ onDmTransmit =>
       \E c, d \in Conns : c # d /\ PendingBinary(c) /\ PendingBinary(d)
  /\ isRemoteTransmit => onDmTransmit

\* What may be written for what was read: a frame when it starts with *ADC?, a
\* line of text for *LDM? and for text commands, either of them for *RDM?.
InKind(t) ==
  CASE t.of.units[1] = "adc" -> t.tok # "text"
    [] t.of.units[1] = "rdm" -> TRUE
    [] OTHER -> t.tok = "text"

\* Only one client ever connected, and it is connected still.
Lone == \A c, d \in Conns : /\ peer[c] # "gone"
                            /\ peer[c] = "up" /\ peer[d] = "up" => c = d

\* A lone client is answered as what it sent was READ: the flags that read
\* raised, and none left from an earlier one, are in force when the thread gets
\* to write, however many reads, answers and timed out calls came before.  For
\* a line that arrives whole and alone that is the kind it asks for.  What
\* gluing or cutting makes of a command is not judged here: an *ADC? glued
\* behind another command is read as text, and answered as text.
AnsweredAsRead ==
  Lone => \A c \in Conns : \A i \in 1..Len(outbox[c]) : InKind(outbox[c][i])

\* What the client library relies on for get_adc, with other clients or
\* without: *ADC? is answered with a frame of waveform data, never with text.
AdcGetsFrame ==
  \A c \in Conns : \A i \in 1..Len(outbox[c]) :
    outbox[c][i].of.units[1] = "adc" => outbox[c][i].tok # "text"

\* Frames are written whole although each channel.write takes only what fits:
\* a "#" is followed by its length, a length above 0 by its newline, and a
\* newline by exactly the announced blocks, the missing ones still to come.
FramesWhole ==
  \A c \in Conns :
    LET s == outbox[c]
        Is(i, t) == IF i <= Len(s) THEN s[i].tok = t
                                   ELSE Busy(c) /\ plan # <<>>
    IN \A i \in 1..Len(s) :
         /\ s[i].tok = "hash" => Is(i + 1, "len")
         /\ s[i].tok = "len" /\ s[i].n > 0 =>
              \A j \in 1..s[i].n : Is(i + 1, "nl") /\ Is(i + 1 + j, "data")
         /\ s[i].tok = "len" /\ i + s[i].n + 2 <= Len(s) =>
              s[i + s[i].n + 2].tok # "data"

\* Requests answered, being answered and not yet read stay in the order they
\* were sent, and no request is answered a second time, though reads, writes
\* and answers of all clients are interleaved.
RepliesInOrder ==
  \A c \in Conns :
    LET out == outbox[c]
        due == (IF interest[c] = "write" /\ ~Busy(c) THEN <<attach[c]>>
                                                     ELSE <<>>) \o inbox[c]
        last(r) == r.reqs[Len(r.reqs)]
    IN /\ \A i, j \in 1..Len(out) :
            i < j => \/ out[i].of = out[j].of
                     \/ last(out[i].of) < out[j].of.reqs[1]
       /\ \A i \in 1..Len(out), j \in 1..Len(due) :
            last(out[i].of) < due[j].reqs[1]
       /\ \A i, j \in 1..Len(due) :
            i < j => last(due[i]) < due[j].reqs[1]

\* A lone client never ends the server thread: it takes a broken connection
\* or a second client's flags to do that.
LoneClientKeepsServer == Lone => pc # "dead"

\* A peer does not read what it is sent.
Stalled(c) == peer[c] = "up" /\ ~Writable(c)

Settled(c) == /\ conn[c] # "none" \/ peer[c] = "absent"
              /\ conn[c] = "open" => inbox[c] = <<>> /\ interest[c] = "read"

\* Every client is accepted and every request answered, unless the thread
\* ends or some peer, this one or another, stops reading: while one answer
\* cannot be written all clients wait.
Served ==
  \A c \in Conns :
    []<>(Settled(c) \/ pc = "dead" \/ \E d \in Conns : Stalled(d))
=============================================================================
