--------------------------- MODULE MCConnection ---------------------------
(***************************************************************************)
(* The requests of the runs.  Each is given by its units, by what they     *)
(* mean to the client: a call, "pong", an "error", or an error and the     *)
(* "end" of the connection.                                                *)
(***************************************************************************)
EXTENDS Connection

Inside == <<Line("*", 1), Line("$", 1), Word("PING"), CRLF>>

MCPayloads == {<<>>, <<CRLF>>, Inside}

Text(w) == BulkString(<<Word(w)>>)

Calls(value, name, args) ==
  [units |-> WriteValue(value), means |-> "call",
   calls |-> <<[name |-> name, args |-> args]>>]

Other(units, means) == [units |-> units, means |-> means, calls |-> <<>>]

Enqueue(p) ==
  Calls(Array(<<Text("MOXY.ENQUEUE"), Text("q"), BulkString(p)>>),
        "MOXY.ENQUEUE", <<<<Word("q")>>, p>>)

FetchValue(n) == Array(<<Text("MOXY.FETCH"), Text("q"), BulkString(<<Digits(n)>>)>>)

Fetch(n) == Calls(FetchValue(n), "MOXY.FETCH", <<<<Word("q")>>, <<Digits(n)>>>>)

Ack == Calls(Array(<<Text("moxy.ack"), Text("lease")>>), "MOXY.ACK", <<<<Word("lease")>>>>)

Stats == Calls(Array(<<Text("MOXY.STATS"), Text("q")>>), "MOXY.STATS", <<<<Word("q")>>>>)

Ping == Other(WriteValue(Array(<<Text("PING")>>)), "pong")

Executed ==
  { Enqueue(p) : p \in MCPayloads } \cup {Fetch(1), Fetch(MaxTimeout), Ack, Stats}

Refused ==
  { Other(WriteValue(v), "error") :
      v \in {FetchValue(0), FetchValue(MaxTimeout + 1),
             Array(<<Text("MOXY.FETCH"), Text("q"), Text("soon")>>),
             Array(<<Text("MOXY.ACK")>>), Array(<<Text("GET")>>), Array(<<>>),
             Array(<<Text("PING"), NullBulkString>>),
             Array(<<Array(<<Text("PING")>>), Text("q")>>), Integer(1), SimpleString("PING")} }

Ending ==
  { Other(u, "end") :
      u \in {<<Line("*", NaN)>>, <<Line("*", MaxArray + 1)>>, <<Line("$", -2)>>,
             <<Line(":", NaN)>>, <<Word("PING")>>,
             <<Line("$", MaxBulk + 1)>> \o Inside \o <<Word("x"), CRLF>>,
             <<Line("*", 2), Line("$", 1), Word("PING"), Word("x")>>} }

Requests == Executed \cup Refused \cup {Ping} \cup Ending

MCScripts == { <<Enqueue(<<CRLF>>), r>> : r \in Requests } \cup { <<r, Ack>> : r \in Requests }

=============================================================================
