-------------------------------- MODULE Dns --------------------------------
(***************************************************************************)
(* The DNS server (dns/dns.c as dns/dpdk_kni.c calls it): one Message lives  *)
(* as long as the server, every query is decoded into it, resolved in it    *)
(* and encoded from it.  Names are sequences of bytes, so that what the two *)
(* conversions do to a byte is seen; a query is read up to its questions.   *)
(***************************************************************************)
EXTENDS Integers, Sequences, FiniteSets

CONSTANTS
  Names,        \* names as they are read, up to the first zero byte after the first
  Zone,         \* the one name the server knows, decoded
  Types,        \* question types, "A", "AAAA", "TXT" and others
  MaxQuestions, \* questions of a query
  MaxQueries    \* queries of a behaviour

VARIABLES
  msg,     \* struct Message of main: the lists, the counts and the code
  query,   \* history: the last query
  reply,   \* the last response, as it is on the wire
  queries  \* history: queries so far

vars == <<msg, query, reply, queries>>

Dot == 46
Unterminated == <<>>   \* no zero byte within the datagram
Seqs(S, n) == UNION {[1..k -> S] : k \in 0..n}
Question == [name : Names \union {Unterminated}, type : Types]
\* an: the answer or authority count of the query is not zero.
Query == [qd : Seqs(Question, MaxQuestions), an : BOOLEAN]

-----------------------------------------------------------------------------
\* 3foo3bar3com0 => foo.bar.com: every byte up to 63 after the first is taken
\* for a length, a digit or a hyphen inside a label as well.
decode_domain_name(w) == [k \in 1..Len(w) - 2 |-> IF w[k + 1] <= 63 THEN Dot ELSE w[k + 1]]

\* Bytes of the label that starts after position k of the name.
LabelLen(s, k) ==
  CHOOSE n \in 0..Len(s) - k : /\ \A j \in k + 1..k + n : s[j] # Dot
                               /\ k + n = Len(s) \/ s[k + n + 1] = Dot

\* foo.bar.com => 3foo3bar3com0.
encode_domain_name(s) ==
  [k \in 1..Len(s) + 2 |->
     CASE k = 1 -> LabelLen(s, 0)
       [] k = Len(s) + 2 -> 0
       [] OTHER -> IF s[k - 1] = Dot THEN LabelLen(s, k - 1) ELSE s[k - 1]]

\* The lists are prepended to.
Empty == [questions |-> <<>>, answers |-> <<>>, qdCount |-> 0, rcode |-> "Ok"]

\* decode_header and decode_msg: counts that announce other sections stop the
\* decoding before the first question, a name without end stops it there.
Decoded(q) ==
  IF q.an THEN 0
  ELSE IF \E k \in 1..Len(q.qd) : q.qd[k].name = Unterminated
       THEN (CHOOSE k \in 1..Len(q.qd) : /\ q.qd[k].name = Unterminated
                                         /\ \A j \in 1..k - 1 : q.qd[j].name # Unterminated) - 1
       ELSE Len(q.qd)

decode_msg(m, q) ==
  LET n == Decoded(q)
  IN [m EXCEPT !.qdCount = Len(q.qd),
               !.questions = [k \in 1..n |-> [name |-> decode_domain_name(q.qd[n + 1 - k].name),
                                              type |-> q.qd[n + 1 - k].type]] \o @]

\* get_A_Record, get_AAAA_Record, get_TXT_Record know one name.
Known(q) == q.type \in {"A", "AAAA", "TXT"} /\ q.name = Zone

\* A record for every question about the known name, prepended: that of a
\* question comes before those of the questions walked before it.
Records(qs) ==
  LET known == {k \in 1..Len(qs) : Known(qs[k])}
      Of(j) == CHOOSE k \in known : Cardinality({i \in known : i >= k}) = j
  IN [j \in 1..Cardinality(known) |-> qs[Of(j)]]

\* A question of another type sets the code for the whole response.
resolve_query(m) ==
  [m EXCEPT !.answers = Records(m.questions) \o @,
            !.rcode = IF \E k \in 1..Len(m.questions) : m.questions[k].type \notin {"A", "AAAA", "TXT"}
                      THEN "NotImplemented" ELSE "Ok"]

\* encode_resource_records.
Encoded(s) == [k \in 1..Len(s) |-> [name |-> encode_domain_name(s[k].name), type |-> s[k].type]]

encode_msg(m) ==
  [questions |-> Encoded(m.questions), answers |-> Encoded(m.answers),
   qdCount |-> m.qdCount, anCount |-> Len(m.answers), rcode |-> m.rcode]

ClearedNot(m) == [m EXCEPT !.answers = <<>>]
\* free_questions, free_resource_records and the memset before every query.
Cleared(m) == Empty

-----------------------------------------------------------------------------
Init == /\ msg = Empty /\ query = [qd |-> <<>>, an |-> FALSE] /\ queries = 0
        /\ reply = encode_msg(Empty)

\* A datagram for port 53; what decode_msg and encode_msg return is not looked
\* at.
Serve(q) ==
  /\ queries < MaxQueries
  /\ queries' = queries + 1
  /\ query' = q
  /\ msg' = resolve_query(decode_msg(Cleared(msg), q))
  /\ reply' = encode_msg(msg')

Next == \E q \in Query : Serve(q)

Spec == Init /\ [][Next]_vars
-----------------------------------------------------------------------------
\* A name whose bytes up to 63 are lengths, found by following them up to the
\* zero byte.
Letters(w) == \A k \in 2..Len(w) : w[k] > 63 \/ \E j \in 1..k - 1 : j + w[j] + 1 = k /\ w[j] <= 63
KnownAsked(q) == Known([name |-> decode_domain_name(q.name), type |-> q.type])

\* A response tells of its own query only, whatever was asked before: the
\* questions it carries are the decoded ones, last first, each name unchanged
\* if its labels have no byte up to 63; a query that could be decoded gets
\* the counts it announces, one record for each question about the known name,
\* in the order asked, and NotImplemented exactly for types the server does
\* not have.
ReplyMatches ==
  LET n == Decoded(query)
      asked == SubSeq(query.qd, 1, n)
      plain == {k \in 1..n : Letters(asked[k].name)}
      known == {k \in 1..n : KnownAsked(asked[k])}
  IN queries > 0 =>
     /\ Len(reply.questions) = n
     /\ \A k \in plain : reply.questions[n + 1 - k] = asked[k]
     /\ reply.anCount = Len(reply.answers) /\ reply.anCount = Cardinality(known)
     /\ \A k \in plain \cap known : reply.answers[Cardinality({j \in known : j <= k})] = asked[k]
     /\ reply.rcode = "NotImplemented" <=> \E k \in 1..n : asked[k].type \notin {"A", "AAAA", "TXT"}
     /\ n = Len(query.qd) => reply.qdCount = Len(reply.questions)
=============================================================================
