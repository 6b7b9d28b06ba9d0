--------------------------- MODULE PostBodyStream ---------------------------
(***************************************************************************)
(* The multipart body of a POST: NXOAuth2PostBodyStream, which strings the *)
(* streams of its parts together, the request whose header announces its   *)
(* boundary and its length, and the NSURLConnection that reads it.  The    *)
(* request may be retried and the connection may ask for the body again.   *)
(*                                                                         *)
(* A byte of a body is its place in it.  The streams of its parts are data *)
(* or a file, opened anew for each body, or the one NSInputStream of an    *)
(* NXOAuth2FileStreamWrapper, which every body of the request shares.      *)
(* NSURLConnection is external: it opens, reads and closes a body in this  *)
(* order, and reads no more once it has read nothing.                      *)
(***************************************************************************)
EXTENDS Naturals, Sequences

CONSTANTS
  Boundary,    \* boundaries that rand() makes
  Width,       \* the number of their characters
  Content,     \* content lengths of the parts, in order
  Header,      \* lengths of their contentHeaders with the fixed characters of
               \* the delimiter
  Final,       \* fixed characters of the last delimiter
  Start,       \* contentLength when a stream is appended, and the total
  BufferSize,  \* what the connection reads at a time
  MaxBodies    \* bodies made for one request

Streams == 2 * Len(Content) + 1
Stream == 1..Streams

\* Before each content its delimiter and headers, and a delimiter at the end.
Delimiters == {s \in Stream : s % 2 = 1}

Size(b, s) ==
  IF s = Streams THEN Final + Width[b]
  ELSE IF s \in Delimiters THEN Header[(s + 1) \div 2] + Width[b]
  ELSE Content[s \div 2]

\* Without the last delimiter.
LengthOfParts(b) == Start[b][Streams]

Length(b) == Start[b][Streams + 1]

NoBoundary == "none"

ASSUME ConstantsAssumption ==
  /\ NoBoundary \notin Boundary
  /\ Width \in [Boundary -> Nat]
  /\ Content \in Seq(Nat)
  /\ Header \in [1..Len(Content) -> Nat \ {0}] /\ Final \in Nat \ {0}
  /\ BufferSize \subseteq Nat \ {0}
  /\ MaxBodies \in Nat

\* streamsForParameters:contentLength: adds the lengths up as it goes.
ASSUME StartAssumption ==
  /\ Start \in [Boundary -> [1..(Streams + 1) -> Nat]]
  /\ \A b \in Boundary : Start[b][1] = 0
  /\ \A b \in Boundary, s \in Stream : Start[b][s + 1] = Start[b][s] + Size(b, s)

VARIABLES
  wrapped,   \* the streams of file stream wrappers among the request's parameters
  wire,      \* how far the connection is with the body
  header,    \* the boundary and the length that the request's header names
  boundary,  \* of the body
  current,   \* currentStream, 0 is nil
  pos,       \* how much was read of each stream
  shut,      \* the wrappers' streams that were closed
  received,  \* what the connection read of the body
  bodies     \* how many bodies were made

vars == <<wrapped, wire, header, boundary, current, pos, shut, received, bodies>>

Wire == {"none", "ready", "reading", "ended", "failed", "closed", "reopened",
         "empty"}

TypeOK ==
  /\ wrapped \subseteq Stream \ Delimiters
  /\ wire \in Wire
  /\ header \in [boundary : Boundary \cup {NoBoundary}, length : Nat]
  /\ boundary \in Boundary \cup {NoBoundary}
  /\ current \in IF wire \in {"reading", "failed"} THEN Stream ELSE {0}
  /\ pos \in [Stream -> Nat]
  /\ shut \subseteq wrapped
  /\ received \in Seq(Nat)
  /\ bodies \in 0..MaxBodies

Init ==
  /\ wrapped \in SUBSET (Stream \ Delimiters)
  /\ wire = "none"
  /\ header = [boundary |-> NoBoundary, length |-> 0]
  /\ boundary = NoBoundary
  /\ current = 0
  /\ pos = [s \in Stream |-> 0]
  /\ shut = {} /\ received = <<>> /\ bodies = 0

-----------------------------------------------------------------------------
(* The body.                                                               *)

\* A wrapper's stream stays where it is.
FreshPositions == [s \in Stream |-> IF s \in wrapped THEN pos[s] ELSE 0]

\* initWithParameters:
MakeBody(b) ==
  /\ bodies < MaxBodies
  /\ bodies' = bodies + 1
  /\ boundary' = b
  /\ current' = 0
  /\ pos' = FreshPositions
  /\ received' = <<>>
  /\ wire' = "ready"

\* A stream that has nothing (more) to give: also one that was closed.
AtEnd(s) == pos[s] = Size(boundary, s) \/ s \in shut

\* A child that returns less than asked is taken for one that has no more.
FromCurrentOrNext(s) ==
  s \in current..Streams /\ (\A t \in (current + 1)..(s - 1) : AtEnd(t))

\* read:maxLength: without its second call of itself.
FromCurrentOnly(s) == s = current

\* The stream a read arrives at: the streams before it give nothing.
FromCurrent(s) == s \in current..Streams /\ (\A t \in current..(s - 1) : AtEnd(t))

\* A stream gives what it has, never bytes of the next.
LeftOf(s) == Size(boundary, s) - pos[s]

Bytes(from, n) == [i \in 1..n |-> from + i]

-----------------------------------------------------------------------------
(* NSInputStream's methods, as the connection calls them.                  *)

Open ==
  /\ wire = "ready"
  /\ current' = 1
  /\ wire' = "reading"
  /\ UNCHANGED <<wrapped, header, boundary, pos, shut, received, bodies>>

\* close forgets the streams, so there is nothing to open.
OpenAgain ==
  /\ wire = "closed"
  /\ wire' = "reopened"
  /\ UNCHANGED <<wrapped, header, boundary, current, pos, shut, received, bodies>>

\* read:maxLength: that returns bytes; the child may return fewer than asked.
Read(len) ==
  /\ wire = "reading"
  /\ \E s \in Stream :
       /\ FromCurrent(s) /\ ~AtEnd(s)
       /\ current' = s
       /\ \E n \in 1..len :
            /\ n <= LeftOf(s)
            /\ received' = received \o Bytes(Start[boundary][s] + pos[s], n)
            /\ pos' = [pos EXCEPT ![s] = @ + n]
  /\ UNCHANGED <<wrapped, wire, header, boundary, shut, bodies>>

\* read:maxLength: that returns 0.
ReadNothing ==
  /\ wire = "reading"
  /\ FromCurrent(Streams) /\ AtEnd(Streams)
  /\ current' = 0
  /\ wire' = "ended"
  /\ UNCHANGED <<wrapped, header, boundary, pos, shut, received, bodies>>

\* read:maxLength: of a body without a current stream.
ReadNoStream ==
  /\ wire = "reopened"
  /\ wire' = "empty"
  /\ UNCHANGED <<wrapped, header, boundary, current, pos, shut, received, bodies>>

\* read:maxLength: that returns the error of its stream: of a part's content,
\* which may be a file; the delimiters are in memory.
ReadFails ==
  /\ wire = "reading"
  /\ \E s \in Stream : FromCurrent(s) /\ s \notin Delimiters /\ current' = s
  /\ wire' = "failed"
  /\ UNCHANGED <<wrapped, header, boundary, pos, shut, received, bodies>>

\* currentStream is not cleared.
CloseStreamsOnly ==
  /\ wire \in {"reading", "ended", "failed", "reopened", "empty"}
  /\ wire' = "closed"
  /\ shut' = wrapped
  /\ received' = <<>>
  /\ UNCHANGED <<wrapped, header, boundary, current, pos, bodies>>

Close ==
  /\ wire \in {"reading", "ended", "failed", "reopened", "empty"}
  /\ wire' = "closed"
  /\ current' = 0
  /\ shut' = wrapped
  /\ received' = <<>>
  /\ UNCHANGED <<wrapped, header, boundary, pos, bodies>>

-----------------------------------------------------------------------------
(* The request.                                                            *)

\* The first createConnection, and the one of each retry: the body and the
\* header are made of the parameters together.
CreateConnection(b) ==
  /\ MakeBody(b)
  /\ header' = [boundary |-> b, length |-> Length(b)]
  /\ UNCHANGED <<wrapped, shut>>

\* connection:needNewBodyStream: makes the body only.
NeedNewBodyStream(b) ==
  /\ wire \in {"reading", "ended"}
  /\ MakeBody(b)
  /\ UNCHANGED <<wrapped, header, shut>>

\* The connection that a retry cancelled closes its body, when another is read.
CancelledConnectionCloses ==
  /\ bodies > 1
  /\ shut' = wrapped
  /\ UNCHANGED <<wrapped, wire, header, boundary, current, pos, received, bodies>>

Reading == (\E len \in BufferSize : Read(len)) \/ ReadNothing \/ ReadFails

Next ==
  \/ Open \/ OpenAgain
  \/ Reading \/ ReadNoStream
  \/ Close
  \/ \E b \in Boundary : CreateConnection(b) \/ NeedNewBodyStream(b)
  \/ CancelledConnectionCloses

Spec == Init /\ [][Next]_vars

\* The connection goes on reading the body it has opened.
FairSpec == Spec /\ WF_vars(Reading)

-----------------------------------------------------------------------------
(* Properties.                                                             *)

\* A request whose header and body disagree is one a server can refuse: a body
\* that ends with the announced length and boundary is the announced body, byte
\* for byte, although a retry may begin with a wrapper's stream half read, or
\* closed by the connection it replaced (NXOAuth2PostBodyStream.m 148-165,
\* NXOAuth2Connection.m 234-245 and 563-566).
DamageShows ==
  /\ wire \in {"ended", "empty"}
  /\ boundary = header.boundary
  /\ Len(received) = header.length
  => received = Bytes(0, Length(boundary))

\* A read always returns bytes or the end, whichever streams are empty, closed or
\* were read before, and what was read is never longer than the body, so there
\* is an end (read:maxLength:, NXOAuth2PostBodyStream.m 148-165).
ReadReturns ==
  wire = "reading" =>
    /\ Len(received) <= Length(boundary)
    /\ \/ \E s \in Stream : FromCurrent(s) /\ ~AtEnd(s)
       \/ FromCurrent(Streams) /\ AtEnd(Streams)

\* A body is read to its end, or not at all: no stream keeps the connection
\* reading nothing.
BodyEnds == wire = "reading" ~> wire # "reading"

-----------------------------------------------------------------------------
(* What the connection is promised.                                        *)

\* Nothing of the body was read for another one before.
Intact == bodies <= 1 \/ wrapped = {}

\* A body that is not intact, or that is opened after it was closed, is no
\* source any more.
SourceState ==
  IF ~Intact \/ wire \in {"reopened", "empty"} THEN "closed" ELSE wire

Source == INSTANCE ByteSource WITH
  state <- SourceState,
  length <- IF SourceState \in {"none", "closed"} THEN 0 ELSE Length(boundary),
  received <- IF SourceState = "closed" THEN <<>> ELSE received

\* The first body of a request, and all of them if no part is a wrapper, are one
\* source of bytes each, in whatever pieces they are read (read:maxLength:,
\* NXOAuth2PostBodyStream.m 148-165).
IsByteSource == Source!Spec
=============================================================================
