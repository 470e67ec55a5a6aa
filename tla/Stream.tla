-------------------------------- MODULE Stream --------------------------------
(***************************************************************************)
(* The inside of a streamed completion: the generator of openai_client.py  *)
(* that reads a backend, the generator of _stream_with_fallback that       *)
(* counts what it passes on, and _StreamCounter.  Gateway has the same     *)
(* request among others, with its slot, its writes and their failures.     *)
(*                                                                         *)
(* Of the bytes of a server-sent stream four are told apart: "<" and ">"   *)
(* are the two halves of a data line with content, "!" is a data line      *)
(* whose JSON is not an object, and "n" is the newline.                    *)
(***************************************************************************)
EXTENDS Naturals, Sequences, FiniteSets

CONSTANTS
  Streams,   \* what the backend may send
  None

Bytes == {"<", ">", "!", "n"}

ASSUME StreamAssumption == Streams \subseteq Seq(Bytes) /\ None \notin Nat

VARIABLES
  stream,      \* what the backend sends
  pc,          \* where the two generators are; adrift: only the reading one is left
  wire,        \* the connection to the backend
  received,    \* how much of the stream has been read
  delivered,   \* how much of it the client was sent
  texts,       \* counter.text: how many contents it holds
  buffer,      \* counter._buffer
  job,         \* the status of the job
  ledger       \* the output tokens billed, or None

vars == <<stream, pc, wire, received, delivered, texts, buffer, job, ledger>>

BlankLines(b) == {i \in 1 .. Len(b) - 1 : b[i] = "n" /\ b[i + 1] = "n"}

StartsLine(b, i) == i = 1 \/ b[i - 1] = "n"
EndsLine(b, i) == i = Len(b) \/ b[i + 1] = "n"

Contents(b) ==
  {i \in 1 .. Len(b) - 1 :
     b[i] = "<" /\ b[i + 1] = ">" /\ StartsLine(b, i) /\ EndsLine(b, i + 1)}

Unreadable(b) == {i \in 1 .. Len(b) : b[i] = "!" /\ StartsLine(b, i) /\ EndsLine(b, i)}

(* What split("\n\n", 1) makes of a buffer with a blank line. *)
End(b) == CHOOSE i \in BlankLines(b) : \A j \in BlankLines(b) : i <= j
Event(b) == SubSeq(b, 1, End(b) - 1)
Rest(b) == SubSeq(b, End(b) + 2, Len(b))

(* The loop of feed over the events that are complete: the contents it     *)
(* adds, the bytes it keeps, and whether obj.get raised.                   *)
Events[b \in Seq(Bytes)] ==
  IF BlankLines(b) = {} THEN [adds |-> 0, keeps |-> b, raises |-> FALSE]
  ELSE IF Unreadable(Event(b)) = {}
  THEN [Events[Rest(b)] EXCEPT !.adds = @ + Cardinality(Contents(Event(b)))]
  ELSE [adds |-> Cardinality({i \in Contents(Event(b)) : \A u \in Unreadable(Event(b)) : i < u}),
        keeps |-> Rest(b), raises |-> TRUE]

(* Fault: every chunk is parsed by itself. *)
FeedAlone(chunk) == Events[chunk]

Feed(chunk) == Events[buffer \o chunk]

Init ==
  /\ stream \in Streams
  /\ pc = "connecting" /\ wire = "open"
  /\ received = 0 /\ delivered = 0
  /\ texts = 0 /\ buffer = <<>>
  /\ job = "started" /\ ledger = None
------------------------------------------------------------------------------
Ended(status) == pc' = "ended" /\ job' = status

Connect ==
  /\ pc = "connecting"
  /\ pc' = "waiting"
  /\ UNCHANGED <<stream, wire, received, delivered, texts, buffer, job, ledger>>

(* A chunk of n bytes is fed and then yielded.  If feed raises, the job    *)
(* fails and the generator that reads the backend stays where it is.       *)
Receive(n) ==
  LET fed == Feed(SubSeq(stream, received + 1, received + n)) IN
  /\ pc = "waiting" /\ received + n <= Len(stream)
  /\ received' = received + n
  /\ texts' = texts + fed.adds
  /\ buffer' = fed.keeps
  /\ IF fed.raises THEN pc' = "adrift" /\ job' = "error" ELSE pc' = "yielding" /\ UNCHANGED job
  /\ UNCHANGED <<stream, wire, delivered, ledger>>

Deliver ==
  /\ pc = "yielding"
  /\ delivered' = received
  /\ pc' = "waiting"
  /\ UNCHANGED <<stream, wire, received, texts, buffer, job, ledger>>

(* The backend has sent everything; the client of httpx is being closed. *)
Exhausted ==
  /\ pc = "waiting" /\ received = Len(stream)
  /\ pc' = "closing"
  /\ UNCHANGED <<stream, wire, received, delivered, texts, buffer, job, ledger>>

(* The job is completed and billed, or one of the two writes raises. *)
Settle ==
  /\ pc = "closing"
  /\ wire' = "closed"
  /\ \/ Ended("completed") /\ ledger' = texts
     \/ Ended("error") /\ UNCHANGED ledger
  /\ UNCHANGED <<stream, received, delivered, texts, buffer>>

(* Fault: no finally around the connection. *)
BreakLeavingOpen ==
  /\ pc \in {"connecting", "waiting"}
  /\ Ended("error")
  /\ UNCHANGED <<stream, wire, received, delivered, texts, buffer, ledger>>

(* A bad status, a transport error or a timeout of the backend. *)
Break ==
  /\ pc \in {"connecting", "waiting"}
  /\ wire' = "closed"
  /\ Ended("error")
  /\ UNCHANGED <<stream, received, delivered, texts, buffer, ledger>>

(* The client leaves while the generators await the backend: both are      *)
(* cancelled and end, without a word about the job.                        *)
Cancel ==
  /\ pc \in {"connecting", "waiting", "closing"}
  /\ wire' = "closed"
  /\ pc' = "ended"
  /\ UNCHANGED <<stream, received, delivered, texts, buffer, job, ledger>>

(* The client leaves while a chunk is being sent to it. *)
Abandon ==
  /\ pc = "yielding"
  /\ pc' = "abandoned"
  /\ UNCHANGED <<stream, wire, received, delivered, texts, buffer, job, ledger>>

(* Fault: the bill is written in the finally clause. *)
CollectBilling ==
  /\ pc = "abandoned"
  /\ pc' = "adrift"
  /\ ledger' = texts
  /\ UNCHANGED <<stream, wire, received, delivered, texts, buffer, job>>

(* asyncio closes the abandoned generator at its yield: GeneratorExit is no
   Exception, so only the finally clause runs, and neither the record nor the
   bill is written. *)
Collect ==
  /\ pc = "abandoned"
  /\ pc' = "adrift"
  /\ UNCHANGED <<stream, wire, received, delivered, texts, buffer, job, ledger>>

(* And then the one that was reading for it. *)
CollectReader ==
  /\ pc = "adrift"
  /\ wire' = "closed"
  /\ pc' = "ended"
  /\ UNCHANGED <<stream, received, delivered, texts, buffer, job, ledger>>

Backend == Connect \/ (\E n \in 1 .. Len(stream) : Receive(n)) \/ Exhausted \/ Break
Client == Deliver \/ Abandon
Loop == Settle \/ Collect \/ CollectReader

Next == Backend \/ Client \/ Loop \/ Cancel

(* The backend answers within its timeout, the client takes what it is     *)
(* sent or leaves, and the event loop runs what is ready.                  *)
Spec == Init /\ [][Next]_vars /\ WF_vars(Backend) /\ WF_vars(Client) /\ WF_vars(Loop)
------------------------------------------------------------------------------
Received == SubSeq(stream, 1, received)

InWholeEvent(b, i) == \E j \in BlankLines(b) : i < j

(***************************************************************************)
(* Wherever the network cuts the stream, the counter holds the contents of *)
(* the data lines received so far that a blank line follows, and it raises *)
(* only for a line that is not readable.                                   *)
(***************************************************************************)
CountedAsReceived ==
  IF \E i \in Unreadable(Received) : InWholeEvent(Received, i)
  THEN pc \in {"adrift", "ended"}
  ELSE texts = Cardinality({i \in Contents(Received) : InWholeEvent(Received, i)})

(***************************************************************************)
(* Only a stream that reached its client as a whole is billed, for the     *)
(* contents in it: nothing for one that broke, or that its client left.    *)
(***************************************************************************)
BilledIsDelivered ==
  ledger # None =>
    /\ job = "completed"
    /\ delivered = Len(stream)
    /\ ledger = Cardinality({i \in Contents(stream) : InWholeEvent(stream, i)})

(* Every connection to a backend is closed again, however the stream ends. *)
ConnectionIsClosed == wire = "open" ~> wire = "closed"
==============================================================================
