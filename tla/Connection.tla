---------------------------- MODULE Connection ----------------------------
(***************************************************************************)
(* One connection: the RESP reader and writer, the protocol adapter, the   *)
(* checks of the command handler and the loop of handleConn, with a client *)
(* that pipelines its requests and may hang up anywhere.                   *)
(*                                                                         *)
(* The stream is made of units: a line with its CRLF, the CRLF behind a    *)
(* bulk string, or a word, which stands for the bytes of a name or of a    *)
(* payload.  Lengths count units where the code counts bytes.  A payload   *)
(* may hold any units, a whole command among them.                         *)
(***************************************************************************)
EXTENDS Integers, Sequences, SequencesExt, FiniteSets

CONSTANTS
  Scripts,    \* what the client may want to send: sequences of requests
  Payloads,   \* payloads a Fetch may find
  MaxBulk,    \* maxBulkLength
  MaxArray,   \* maxArrayLength
  MaxTimeout  \* maxLeaseTimeoutMS

ASSUME ConnectionAssumption ==
  {MaxBulk, MaxArray, MaxTimeout} \subseteq Nat \ {0}

VARIABLES
  script,     \* the client's requests, each with its units and its meaning
  sent,       \* number of units sent
  input,      \* units sent and not yet read
  eof,        \* the client sends no more
  gone,       \* nor does it take replies
  mode,       \* handleConn: "read", "call", "write", "refuse" (write, then return), "closed"
  request,    \* the value ReadValue returned
  pending,    \* what WriteValue has still to write
  output,     \* units written
  executed    \* calls made to the service

vars == <<script, sent, input, eof, gone, mode, request, pending, output, executed>>

-----------------------------------------------------------------------------
(* Units and values *)

Line(t, n) == [unit |-> t, word |-> "", num |-> n]

TextLine(t, w) == [unit |-> t, word |-> w, num |-> 0]

Word(w) == [unit |-> "word", word |-> w, num |-> 0]

(* A word of digits. *)
Digits(n) == [unit |-> "word", word |-> "digits", num |-> n]

CRLF == [unit |-> "crlf", word |-> "", num |-> 0]

(* The beginning of a unit of which the rest never came. *)
Half == [unit |-> "half", word |-> "", num |-> 0]

(* The number in a line that does not parse as one. *)
NaN == -9

Blank == [type |-> "", text |-> <<>>, integer |-> 0, array |-> <<>>, null |-> FALSE]

SimpleString(w) == [Blank EXCEPT !.type = "+", !.text = <<Word(w)>>]

Error(w) == [Blank EXCEPT !.type = "-", !.text = <<Word(w)>>]

Integer(n) == [Blank EXCEPT !.type = ":", !.integer = n]

BulkString(text) == [Blank EXCEPT !.type = "$", !.text = text]

NullBulkString == [Blank EXCEPT !.type = "$", !.null = TRUE]

Array(values) == [Blank EXCEPT !.type = "*", !.array = values]

-----------------------------------------------------------------------------
(* The writer *)

RECURSIVE WriteValue(_)
WriteValue(v) ==
  CASE v.type \in {"+", "-"} -> <<TextLine(v.type, v.text[1].word)>>
    [] v.type = ":" -> <<Line(":", v.integer)>>
    [] v.type = "$" ->
         IF v.null THEN <<Line("$", -1)>>
         ELSE <<Line("$", Len(v.text))>> \o v.text \o <<CRLF>>
    [] v.type = "*" ->
         <<Line("*", Len(v.array))>>
           \o FlattenSeq([i \in DOMAIN v.array |-> WriteValue(v.array[i])])

-----------------------------------------------------------------------------
(* The reader, on the units at hand: a value and the place behind it, an   *)
(* error, or "wait" where ReadByte or ReadFull blocks for more.            *)

Read(v, p) == [got |-> "value", value |-> v, next |-> p]

Fail(how) == [got |-> how, value |-> Blank, next |-> 0]

(* Mutant of Missing: an end inside a value is taken for a pause. *)
MissingWaits(ended, how) == Fail(IF ended /\ how = "eof" THEN how ELSE "wait")

Missing(ended, how) == Fail(IF ended THEN how ELSE "wait")

(* Mutant of Behind: the CRLF is checked and left in the stream. *)
BehindText(p, n) == p + n

(* The place behind a bulk string of length n at p and its CRLF. *)
Behind(p, n) == p + n + 1

(* At p, behind the line with the length. *)
readBulkString(s, p, n, ended) ==
  IF n < -1 THEN Fail("malformed")
  ELSE IF n = -1 THEN Read(NullBulkString, p)
  ELSE IF n > MaxBulk THEN Fail("too large")
  ELSE IF Len(s) < p + n THEN Missing(ended, "malformed")
  ELSE IF s[p + n] # CRLF THEN Fail("malformed")
  ELSE Read(BulkString(SubSeq(s, p, p + n - 1)), Behind(p, n))

(* An array with one more item, or the error of either: io.EOF in front of *)
(* an item is the error of the array as well.                              *)
readItem(before, item) ==
  IF before.got # "value" THEN before
  ELSE IF item.got # "value" THEN item
  ELSE Read(Array(Append(before.value.array, item.value)), item.next)

(* The values at each place of a stream. *)
ReadValue(s, ended) ==
  LET At[p \in 1 .. Len(s) + 1] ==
        IF p > Len(s) THEN Missing(ended, "eof")
        ELSE CASE s[p].unit = "+" -> Read(SimpleString(s[p].word), p + 1)
               [] s[p].unit = "-" -> Read(Error(s[p].word), p + 1)
               [] s[p].unit = ":" -> IF s[p].num = NaN THEN Fail("malformed")
                                     ELSE Read(Integer(s[p].num), p + 1)
               [] s[p].unit = "$" -> readBulkString(s, p + 1, s[p].num, ended)
               [] s[p].unit = "*" ->
                    IF s[p].num < 0 THEN Fail("malformed")
                    ELSE IF s[p].num > MaxArray THEN Fail("too large")
                    ELSE LET Items[k \in 0 .. s[p].num] ==
                               IF k = 0 THEN Read(Array(<<>>), p + 1)
                               ELSE CHOOSE r \in { readItem(b, At[b.next]) : b \in {Items[k - 1]} } : TRUE
                         IN Items[s[p].num]
               [] OTHER -> Fail("malformed")
  IN At

-----------------------------------------------------------------------------
(* The adapter and the command handler *)

(* strings.ToUpper *)
ToUpper(w) == IF w = "moxy.ack" THEN "MOXY.ACK" ELSE w

(* A command, or the error of CommandFromRESP. *)
CommandFromRESP(v) ==
  IF \/ v.type # "*"
     \/ v.array = <<>>
     \/ \E item \in Range(v.array) : item.type # "$" \/ item.null
  THEN [err |-> TRUE, name |-> "", args |-> <<>>]
  ELSE [err |-> FALSE,
        name |-> IF Len(v.array[1].text) = 1 THEN ToUpper(v.array[1].text[1].word)
                 ELSE "other",
        args |-> [i \in 1 .. Len(v.array) - 1 |-> v.array[i + 1].text]]

Arity == [c \in {"MOXY.ENQUEUE", "MOXY.FETCH", "MOXY.ACK", "MOXY.STATS"} |->
            IF c \in {"MOXY.ENQUEUE", "MOXY.FETCH"} THEN 2 ELSE 1]

(* handleFetch's check of its timeout. *)
ValidTimeout(text) ==
  /\ Len(text) = 1
  /\ text[1].word = "digits"
  /\ text[1].num \in 1 .. MaxTimeout

(* Handler.Handle reaches the service. *)
Accepted(cmd) ==
  /\ cmd.name \in DOMAIN Arity
  /\ Len(cmd.args) = Arity[cmd.name]
  /\ cmd.name = "MOXY.FETCH" => ValidTimeout(cmd.args[2])

Field(name, text) == <<BulkString(<<Word(name)>>), BulkString(text)>>

Count(name) == <<BulkString(<<Word(name)>>), Integer(0)>>

ErrorReply == Error("ERR")

(* What responseToRESP and errorReply make of the service's answers.  Only *)
(* Stats cannot fail.                                                      *)
Replies(name) ==
  CASE name = "MOXY.ENQUEUE" -> {ErrorReply, Array(Field("task_id", <<Word("task")>>))}
    [] name = "MOXY.FETCH" ->
         {ErrorReply, NullBulkString} \cup
         { Array(Field("lease_id", <<Word("lease")>>) \o Field("task_id", <<Word("task")>>)
                   \o Field("payload", p)) : p \in Payloads }
    [] name = "MOXY.ACK" -> {ErrorReply, SimpleString("OK")}
    [] name = "MOXY.STATS" ->
         {Array(Count("ready") \o Count("processing") \o Count("dead")
                  \o Count("active_leases") \o Count("heap"))}

-----------------------------------------------------------------------------
(* The client *)

Stream == FlattenSeq([i \in DOMAIN script |-> script[i].units])

Init ==
  /\ script \in Scripts
  /\ sent = 0
  /\ input = <<>>
  /\ eof = FALSE
  /\ gone = FALSE
  /\ mode = "read"
  /\ request = Blank
  /\ pending = <<>>
  /\ output = <<>>
  /\ executed = <<>>

Send ==
  /\ ~eof /\ sent < Len(Stream)
  /\ input' = Append(input, Stream[sent + 1])
  /\ sent' = sent + 1
  /\ UNCHANGED <<script, request, eof, gone, mode, pending, output, executed>>

(* It may stop within a unit, and stop reading or not. *)
HangUp ==
  /\ ~eof
  /\ eof' = TRUE
  /\ gone' \in BOOLEAN
  /\ \/ UNCHANGED input
     \/ sent < Len(Stream) /\ input' = Append(input, Half)
  /\ UNCHANGED <<script, request, sent, mode, pending, output, executed>>

-----------------------------------------------------------------------------
(* handleConn *)

Reading == ReadValue(input, eof)[1]

(* Adapter.Handle: the reply, and the call made for it. *)
Handle(v) ==
  LET cmd == CommandFromRESP(v)
      Reply(r) == [reply |-> r, calls |-> <<>>]
  IN IF cmd.err THEN {Reply(ErrorReply)}
     ELSE IF cmd.name = "PING" THEN {Reply(SimpleString("PONG"))}
     ELSE IF ~Accepted(cmd) THEN {Reply(ErrorReply)}
     ELSE { [reply |-> r, calls |-> <<[name |-> cmd.name, args |-> cmd.args]>>] :
              r \in Replies(cmd.name) }

(* Mutant of Receive: a buffered reader made anew for every request. *)
ReceiveAfresh ==
  /\ mode = "read" /\ Reading.got = "value"
  /\ request' = Reading.value
  /\ input' = <<>>
  /\ mode' = "call"
  /\ UNCHANGED <<script, sent, eof, gone, pending, output, executed>>

Receive ==
  /\ mode = "read" /\ Reading.got = "value"
  /\ request' = Reading.value
  /\ input' = SubSeq(input, Reading.next, Len(input))
  /\ mode' = "call"
  /\ UNCHANGED <<script, sent, eof, gone, pending, output, executed>>

Serve ==
  /\ mode = "call"
  /\ \E h \in Handle(request) :
       /\ pending' = WriteValue(h.reply)
       /\ executed' = executed \o h.calls
  /\ request' = Blank
  /\ mode' = "write"
  /\ UNCHANGED <<script, sent, input, eof, gone, output>>

(* Mutant of Refuse: the loop goes on behind the line it could not use. *)
RefuseAndGoOn ==
  /\ mode = "read" /\ Reading.got \in {"malformed", "too large"}
  /\ pending' = WriteValue(ErrorReply)
  /\ mode' = "write"
  /\ input' = Tail(input)
  /\ UNCHANGED <<script, request, sent, eof, gone, output, executed>>

Refuse ==
  /\ mode = "read" /\ Reading.got \in {"malformed", "too large"}
  /\ pending' = WriteValue(ErrorReply)
  /\ mode' = "refuse"
  /\ UNCHANGED <<script, request, sent, input, eof, gone, output, executed>>

End ==
  /\ mode = "read" /\ Reading.got = "eof"
  /\ mode' = "closed"
  /\ UNCHANGED <<script, request, sent, input, eof, gone, pending, output, executed>>

(* Mutant of Write: it returns to the loop before everything is written. *)
WriteFirst ==
  /\ mode \in {"write", "refuse"}
  /\ output' = Append(output, Head(pending))
  /\ pending' = Tail(pending)
  /\ mode' = IF mode = "write" THEN "read" ELSE "closed"
  /\ UNCHANGED <<script, request, sent, input, eof, gone, executed>>

Write ==
  /\ mode \in {"write", "refuse"}
  /\ output' = Append(output, Head(pending))
  /\ pending' = Tail(pending)
  /\ mode' = IF Len(pending) > 1 THEN mode
             ELSE IF mode = "write" THEN "read" ELSE "closed"
  /\ UNCHANGED <<script, request, sent, input, eof, gone, executed>>

(* The peer is gone: a read or a write returns an error. *)
Reset ==
  /\ gone /\ mode # "closed"
  /\ mode' = "closed"
  /\ pending' = <<>>
  /\ request' = Blank
  /\ UNCHANGED <<script, sent, input, eof, gone, output, executed>>

Handler == Receive \/ Serve \/ Refuse \/ End \/ Write \/ Reset

Next == Send \/ HangUp \/ Handler

(* The handler runs, and what it writes is taken. *)
FairSpec == Init /\ [][Next]_vars /\ WF_vars(Handler)

-----------------------------------------------------------------------------
(* What the client is told *)

Whole(i) == Len(FlattenSeq([j \in 1 .. i |-> script[j].units])) <= sent

(* Request i has been sent, and none before it ends the connection. *)
Due(i) ==
  /\ i \in DOMAIN script
  /\ Whole(i)
  /\ \A j \in 1 .. i - 1 : script[j].means # "end"

Meant ==
  FlattenSeq([i \in DOMAIN script |-> IF Due(i) THEN script[i].calls ELSE <<>>])

RECURSIVE Decode(_, _, _)
Decode(s, p, values) ==
  LET r == ReadValue(s, FALSE)[p]
  IN IF r.got = "value" THEN Decode(s, r.next, Append(values, r.value))
     ELSE [values |-> values, then |-> r.got]

Told == Decode(output, 1, <<>>)

(* Whether a reply answers a request. *)
Answers(r, v) ==
  CASE r.means = "pong" -> v = SimpleString("PONG")
    [] r.means \in {"error", "end"} -> v = ErrorReply
    [] r.means = "call" ->
         LET name == r.calls[1].name
             Fields(n) == v.type = "*" /\ Len(v.array) = n
         IN \/ name # "MOXY.STATS" /\ v = ErrorReply
            \/ name = "MOXY.ENQUEUE" /\ Fields(2)
            \/ name = "MOXY.FETCH" /\ v = NullBulkString
            \/ name = "MOXY.FETCH" /\ Fields(6) /\ v.array[6].text \in Payloads
            \/ name = "MOXY.ACK" /\ v = SimpleString("OK")
            \/ name = "MOXY.STATS" /\ Fields(10)

ConnTypeOK ==
  /\ script \in Scripts
  /\ sent \in 0 .. Len(Stream)
  /\ {eof, gone} \subseteq BOOLEAN
  /\ mode \in {"read", "call", "write", "refuse", "closed"}
  /\ pending # <<>> <=> mode \in {"write", "refuse"}
  /\ request # Blank <=> mode = "call"
  /\ Len(input) <= sent + 1

(* The service is called for no requests but those that arrived whole, in  *)
(* their order and with their own arguments, however the stream is cut     *)
(* into segments and whatever a payload contains.  A request the client    *)
(* did not finish is not executed, nor is anything behind a request that   *)
(* could not be read.                                                      *)
OnlyWhatWasAsked == IsPrefix(executed, Meant)

(* What is written decodes to one reply per request, in order, the i-th of *)
(* a kind that answers the i-th request: an error for one that is refused  *)
(* or was cut off, and for a Fetch the payload the service returned.       *)
RepliesFollowRequests ==
  /\ Told.then = "wait"
  /\ Len(Told.values) <= Len(script)
  /\ \A i \in DOMAIN Told.values :
       IF Whole(i) THEN Answers(script[i], Told.values[i])
       ELSE Told.values[i].type = "-"

(* Every request that arrived whole is answered, those that were read from *)
(* the socket together with an earlier one too, unless the client is gone. *)
EveryRequestAnswered ==
  \A i \in 1 .. 2 : Due(i) ~> (gone \/ Len(Told.values) >= i)

(* A handler returns once its client has hung up, wherever in a request    *)
(* that was: otherwise it would keep its slot, and a shutdown, for ever.   *)
HandlerEnds == eof ~> mode = "closed"

=============================================================================
