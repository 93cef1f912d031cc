----------------------------- MODULE InputProofs -----------------------------
(* Proofs about the readers of Inputs, for any number of addresses, proxies   *)
(* and forged header entries, and for every year.                             *)
EXTENDS Inputs, SequenceTheorems, TLAPS

(* An input is one of the three kinds, and stays what it is.                  *)
Facts == input \in MailFacts \/ input \in NginxFacts \/ input \in BlockFacts

LEMMA FactsKept == Facts /\ [InputNext]_vars => Facts'
BY DEF Facts, InputNext, ReadMailLine, ReadAccessLine, ReadBlockRequest, vars

LEMMA MonthDaysType == \A y, m : m \in 1..12 => MonthDays(y, m) \in 28..31
<1>1. \A m \in 1..12 : <<31, 28, 31, 30, 31, 30, 31, 31, 30, 31, 30, 31>>[m] \in 28..31
  OBVIOUS
<1> QED BY <1>1 DEF MonthDays

(* What a fact of the mail log says.                                          *)
LEMMA MailFactShape ==
    ASSUME NEW x \in MailFacts
    PROVE  /\ x.kind = "mail" /\ x.says \in Statements /\ x.format \in {"legacy", "rfc3339"}
           /\ x.at.year \in Nat \ {0} /\ x.at.month \in 1..12 /\ x.at.half \in {0, 1}
           /\ x.at.day \in 1..MonthDays(x.at.year, x.at.month)
           /\ x.lag \in Int /\ -MaxLag <= x.lag /\ x.lag <= MaxLag
<1> DEFINE A == [kind : {"mail"}, says : {Says("smtp", "", "rcpt", "sent", FALSE)}, at : Days,
                 lag : Lags, format : {"legacy"}]
           B == [kind : {"mail"}, says : Statements, lag : {0}, format : {"legacy", "rfc3339"},
                 at : [year : Years, month : {2}, day : {28}, half : {0}]]
<1>1. x \in A \/ x \in B
  BY DEF MailFacts
<1>2. CASE x \in A
  <2>1. x.at \in Days /\ x.lag \in Lags /\ x.kind = "mail" /\ x.format = "legacy"
        /\ x.says = Says("smtp", "", "rcpt", "sent", FALSE)
    BY <1>2
  <2>2. /\ x.at.year \in Nat \ {0} /\ x.at.month \in 1..12 /\ x.at.half \in {0, 1}
        /\ x.at.day \in 1..31 /\ x.at.day <= MonthDays(x.at.year, x.at.month)
    BY <2>1, InputAssumption DEF Days
  <2>3. x.lag \in Int /\ -MaxLag <= x.lag /\ x.lag <= MaxLag
    <3>1. MaxLag \in Nat \ {0}
      BY InputAssumption
    <3>2. x.lag \in {-MaxLag, -1, 0, 1, MaxLag}
      BY <2>1 DEF Lags
    <3> QED BY <3>1, <3>2
  <2>4. x.says \in Statements
    BY <2>1 DEF Statements
  <2>5. MonthDays(x.at.year, x.at.month) \in Int
    BY <2>2, MonthDaysType
  <2>6. x.at.day \in 1..MonthDays(x.at.year, x.at.month)
    BY <2>2, <2>5
  <2> QED BY <2>1, <2>2, <2>3, <2>4, <2>6
<1>3. CASE x \in B
  <2>1. /\ x.kind = "mail" /\ x.says \in Statements /\ x.format \in {"legacy", "rfc3339"}
        /\ x.lag = 0 /\ x.at \in [year : Years, month : {2}, day : {28}, half : {0}]
    BY <1>3
  <2>2. x.at.year \in Nat \ {0} /\ x.at.month = 2 /\ x.at.day = 28 /\ x.at.half = 0
    BY <2>1, InputAssumption
  <2>3. MonthDays(x.at.year, 2) \in {28, 29}
    BY DEF MonthDays
  <2>4. x.at.day \in 1..MonthDays(x.at.year, x.at.month)
    BY <2>2, <2>3
  <2> QED BY <2>1, <2>2, <2>4, InputAssumption
<1> QED BY <1>1, <1>2, <1>3

LEMMA KindOfFact ==
    ASSUME Facts
    PROVE  /\ input.kind = "mail" => input \in MailFacts
           /\ input.kind = "nginx" => input \in NginxFacts
           /\ input.kind = "block" => input \in BlockFacts
<1>1. input \in MailFacts => input.kind = "mail"
  BY MailFactShape
<1>2. input \in NginxFacts => input.kind = "nginx"
  BY DEF NginxFacts
<1>3. input \in BlockFacts => input.kind = "block"
  BY DEF BlockFacts
<1> QED BY <1>1, <1>2, <1>3 DEF Facts

----------------------------------------------------------------------------
(* Block requests.                                                           *)

(* What clientIP makes of the headers of a request it can tell the sender of.  *)
LEMMA SenderRecognised ==
    ASSUME NEW r \in BlockFacts, Recognised(r)
    PROVE  clientIP(Headers(r)) = Text(r.admin, r.form)
<1>1. /\ r.via \in {"direct", "proxy", "realip"} /\ r.sent.forwarded = <<>>
      /\ r.via = "direct" => r.sent.realIP = <<>>
  BY DEF BlockFacts, Recognised
<1> DEFINE admin == Text(r.admin, r.form)
           proxy == Text(Frontend, "plain")
<1> HIDE DEF admin, proxy
<1>2. /\ r.via = "direct" => /\ Headers(r).forwarded = <<>> /\ Headers(r).realIP = <<>>
                             /\ Headers(r).remote = admin
      /\ r.via = "realip" => Headers(r).forwarded = <<>> /\ Headers(r).realIP = <<admin>>
      /\ r.via = "proxy" => Headers(r).forwarded = <<>> \o <<admin, proxy>>
  BY <1>1 DEF Headers, admin, proxy
<1>3. <<>> \o <<admin, proxy>> = <<admin, proxy>>
  OBVIOUS
<1>4. <<admin, proxy>> # <<>> /\ <<admin, proxy>>[1] = admin /\ <<admin>> # <<>> /\ <<admin>>[1] = admin
  OBVIOUS
<1>5. clientIP(Headers(r)) = admin
  BY <1>1, <1>2, <1>3, <1>4 DEF clientIP
<1> QED BY <1>5 DEF admin

LEMMA OwnAddressRefused ==
    ASSUME input \in BlockFacts, ReadBlockRequest
    PROVE  /\ \A i \in DOMAIN result' : result'[i].blocked \notin Protected
           /\ Recognised(input) =>
                /\ \A i \in DOMAIN result' : result'[i].blocked # input.admin
                /\ result' = <<>> => \/ input.target.form = "unreadable"
                                     \/ input.target.ip \in Protected \cup {input.admin}
<1> DEFINE h == Headers(input)
           target == input.target
<1>1. Recognised(input) => clientIP(h).ip = input.admin /\ Reads(clientIP(h))
  BY SenderRecognised DEF Text, Reads, Recognised
<1>2. result' = validateBlockTarget(target, h)
  BY DEF ReadBlockRequest
<1> HIDE DEF h, target
<1> DEFINE Refused == \/ ~Reads(target) \/ target.ip \in Protected
                      \/ Reads(clientIP(h)) /\ SameIP(clientIP(h), target)
<1>3. CASE Refused
  <2>1. result' = <<>>
    BY <1>2, <1>3 DEF validateBlockTarget
  <2>2. Recognised(input) => target.form = "unreadable" \/ target.ip \in Protected \cup {input.admin}
    BY <1>1, <1>3 DEF SameIP, Reads
  <2> QED BY <2>1, <2>2 DEF target
<1>4. CASE ~Refused
  <2>1. /\ result' = <<[blocked |-> target.ip]>> /\ target.ip \notin Protected
        /\ Recognised(input) => target.ip # input.admin
    BY <1>1, <1>2, <1>4 DEF validateBlockTarget, SameIP
  <2> QED BY <2>1
<1> QED BY <1>3, <1>4

(* "refusing to block the current administrator IP": an administrator whom    *)
(* clientIP can recognise blocks every address but their own, in whichever    *)
(* notation, and the protected ones; nobody blocks a protected one.           *)
THEOREM NobodyLockedOut == InputSpec => []NeverLockedOut
<1> DEFINE Inv == Facts /\ NeverLockedOut
<1>1. InputInit => Inv
  BY DEF InputInit, Facts, NeverLockedOut
<1>2. Inv /\ [InputNext]_vars => Inv'
  <2> SUFFICES ASSUME Inv, [InputNext]_vars PROVE NeverLockedOut'
    BY FactsKept
  <2>1. CASE ReadBlockRequest
    <3>1. input \in BlockFacts /\ input' = input
      BY <2>1, KindOfFact DEF ReadBlockRequest
    <3> QED BY <2>1, <3>1, OwnAddressRefused DEF NeverLockedOut
  <2>2. CASE ReadMailLine \/ ReadAccessLine
    BY <2>2 DEF ReadMailLine, ReadAccessLine, NeverLockedOut
  <2>3. CASE UNCHANGED vars
    BY <2>3 DEF vars, NeverLockedOut
  <2> QED BY <2>1, <2>2, <2>3 DEF InputNext
<1> QED BY <1>1, <1>2, PTL DEF InputSpec

----------------------------------------------------------------------------
(* Access log lines.                                                         *)

(* The greatest of a set of integers, once it is known.                       *)
LEMMA MaxIs ==
    ASSUME NEW S, S \subseteq Int, NEW m \in S, \A k \in S : k <= m
    PROVE  Max(S) = m
<1>1. \E x \in S : \A y \in S : x >= y
  OBVIOUS
<1>2. Max(S) \in S /\ \A y \in S : Max(S) >= y
  BY <1>1 DEF Max
<1>3. PICK x : x = Max(S)
  OBVIOUS
<1>4. x \in Int /\ m \in Int /\ x <= m /\ x >= m
  BY <1>2, <1>3
<1> QED BY <1>3, <1>4

(* What a fact of the access log says.                                        *)
LEMMA NginxFactShape ==
    ASSUME NEW r \in NginxFacts
    PROVE  /\ r.kind = "nginx" /\ r.client \in Clients
           /\ r.proxies \in Seq(Trusted) /\ Len(r.proxies) \in Nat
           /\ r.sent \in Seq(Clients \cup Trusted \cup {Garbage}) /\ Len(r.sent) \in Nat
           /\ r.format \in {"combined", "json"} /\ r.split \in BOOLEAN /\ r.query \in BOOLEAN
           /\ r.words \in BOOLEAN /\ r.parses \in BOOLEAN
           /\ r.stamps \in [time_iso8601 : {"", "good"}, timestamp : {"", "good", "other"},
                            time_local : {"", "good"}, msec : {"", "good"}]
           /\ \E key \in DOMAIN r.stamps : r.stamps[key] = "good"
           /\ r.format = "combined" => r.stamps.time_iso8601 = "good" /\ r.split
<1>1. \A S, n : \A s \in SeqOf(S, n) : s \in Seq(S)
  <2> SUFFICES ASSUME NEW S, NEW n, NEW m \in 0..n, NEW s \in [1..m -> S] PROVE s \in Seq(S)
    BY DEF SeqOf
  <2>1. m \in Nat
    OBVIOUS
  <2> QED BY <2>1, SeqDef
<1>2. /\ r.kind = "nginx" /\ r.client \in Clients /\ r.proxies \in SeqOf(Trusted, MaxProxies)
      /\ r.sent \in SeqOf(Clients \cup Trusted \cup {Garbage}, MaxSent)
  BY DEF NginxFacts
<1>3. /\ r.format \in {"combined", "json"} /\ r.split \in BOOLEAN /\ r.query \in BOOLEAN
      /\ r.words \in BOOLEAN /\ r.parses \in BOOLEAN
      /\ r.stamps \in [time_iso8601 : {"", "good"}, timestamp : {"", "good", "other"},
                       time_local : {"", "good"}, msec : {"", "good"}]
  BY DEF NginxFacts
<1>4. /\ \E key \in DOMAIN r.stamps : r.stamps[key] = "good"
      /\ r.format = "combined" => r.stamps.time_iso8601 = "good" /\ r.split
  BY DEF NginxFacts
<1> QED BY <1>1, <1>2, <1>3, <1>4, LenProperties

(* Behind trusted proxies the header ends with the client and the proxies     *)
(* after it, so the last address in it that is no proxy is the client.        *)
LEMMA ClientOfHeader ==
    ASSUME NEW r \in NginxFacts
    PROVE  /\ Logged(r).remote_addr \in Clients \cup Trusted
           /\ clientOf(Logged(r).remote_addr, <<>>) \in Clients \cup Trusted
           /\ r.proxies = <<>> => clientOf(Logged(r).remote_addr, <<>>) = r.client
           /\ clientOf(Logged(r).remote_addr, Logged(r).http_x_forwarded_for) = r.client
<1> DEFINE n == Len(r.proxies)
           m == Len(r.sent)
           tail == [i \in 1..n |-> Hop(r, i - 1)]
           hops == r.sent \o tail
           remote == Hop(r, n)
           Header == Clients \cup Trusted \cup {Garbage}
<1>1. /\ r.client \in Clients /\ r.proxies \in Seq(Trusted) /\ n \in Nat
      /\ r.sent \in Seq(Clients \cup Trusted \cup {Garbage}) /\ m \in Nat
  BY NginxFactShape
<1>2. Logged(r).remote_addr = remote /\ Logged(r).http_x_forwarded_for = hops
  BY DEF Logged
<1>3. r.client \notin Trusted /\ r.client # Garbage
  BY <1>1, InputAssumption DEF Garbage
<1>4. \A i \in 1..n : r.proxies[i] \in Trusted
  BY <1>1, ElementOfSeq
<1>5. remote = (IF n = 0 THEN r.client ELSE r.proxies[n])
  BY DEF Hop
<1>6. remote \in Clients \cup Trusted /\ (n > 0 => remote \in Trusted)
  BY <1>1, <1>4, <1>5
<1>7. Callers(<<>>) = {}
  BY DEF Callers
<1>8. r.proxies = <<>> => n = 0
  BY EmptySeq
<1>9. clientOf(remote, <<>>) = remote
  BY <1>7 DEF clientOf
<1>10. CASE n = 0
  <2>1. remote = r.client /\ ~isTrustedProxy(remote)
    BY <1>3, <1>5, <1>10 DEF isTrustedProxy
  <2>2. clientOf(remote, hops) = r.client
    BY <2>1 DEF clientOf
  <2> QED BY <1>2, <1>6, <1>9, <2>1, <2>2
<1>11. CASE n > 0
  <2>1. /\ tail \in Seq(Header) /\ Len(tail) = n /\ tail[1] = r.client
        /\ \A i \in 2..n : tail[i] \in Trusted
    <3>1. \A i \in 1..n : Hop(r, i - 1) = (IF i = 1 THEN r.client ELSE r.proxies[i - 1])
      BY <1>1 DEF Hop
    <3>2. \A i \in 2..n : Hop(r, i - 1) \in Trusted
      BY <1>1, <1>4, <3>1
    <3>3. \A i \in 1..n : Hop(r, i - 1) \in Clients \cup Trusted
      BY <1>1, <3>1, <3>2
    <3>4. tail \in [1..n -> Header]
      BY <3>3
    <3>5. tail \in Seq(Header)
      BY <1>1, <3>4, SeqDef
    <3>6. Len(tail) = n
      BY <1>1, <3>5, LenProperties
    <3> QED BY <1>1, <1>11, <3>1, <3>2, <3>5, <3>6
  <2> HIDE DEF tail, n, m
  <2>2. /\ Len(hops) = m + n
        /\ \A i \in 1..(m + n) : hops[i] = IF i <= m THEN r.sent[i] ELSE tail[i - m]
    <3>1. Len(r.sent) = m
      BY DEF m
    <3>2. r.sent \in Seq(Header) /\ tail \in Seq(Header)
      BY <1>1, <2>1
    <3> HIDE DEF Header
    <3>3. /\ Len(hops) = Len(r.sent) + Len(tail)
          /\ \A i \in 1..(Len(r.sent) + Len(tail)) :
               hops[i] = IF i <= Len(r.sent) THEN r.sent[i] ELSE tail[i - Len(r.sent)]
      BY <3>2, ConcatProperties
    <3> QED BY <2>1, <3>1, <3>3
  <2> HIDE DEF hops
  <2>3. m + 1 \in 1..Len(hops) /\ hops[m + 1] = r.client
    <3>1. m + 1 \in 1..(m + n) /\ ~(m + 1 <= m) /\ (m + 1) - m = 1
      BY <1>1, <1>11
    <3> QED BY <2>1, <2>2, <3>1
  <2>4. ASSUME NEW i \in 1..Len(hops), i > m + 1 PROVE hops[i] \in Trusted
    <3>1. i \in 1..(m + n) /\ ~(i <= m) /\ i - m \in 2..n
      BY <1>1, <2>2, <2>4
    <3> QED BY <2>1, <2>2, <3>1
  <2>5. /\ Callers(hops) \subseteq Int /\ m + 1 \in Callers(hops)
        /\ \A k \in Callers(hops) : k <= m + 1
    <3>1. Callers(hops) \subseteq 1..Len(hops) /\ 1..Len(hops) \subseteq Int
      BY <1>1, <2>2 DEF Callers
    <3>2. m + 1 \in Callers(hops)
      BY <1>3, <2>3 DEF Callers, isTrustedProxy
    <3>3. ASSUME NEW k \in Callers(hops) PROVE k <= m + 1
      <4>1. k \in 1..Len(hops) /\ hops[k] \notin Trusted
        BY DEF Callers, isTrustedProxy
      <4> QED BY <1>1, <2>2, <2>4, <4>1
    <3> QED BY <3>1, <3>2, <3>3
  <2>6. Max(Callers(hops)) = m + 1
    BY <2>5, MaxIs
  <2>7. forwardedClientIP(hops) = r.client
    BY <2>3, <2>6 DEF forwardedClientIP
  <2>8. isTrustedProxy(remote) /\ Callers(hops) # {}
    BY <1>6, <1>11, <2>5 DEF isTrustedProxy
  <2>9. clientOf(remote, hops) = r.client
    BY <2>7, <2>8 DEF clientOf
  <2> QED BY <1>2, <1>6, <1>8, <1>9, <1>11, <2>9
<1> QED BY <1>1, <1>10, <1>11

(* What ParseNginxLine makes of a line, in either format.                     *)
RequestFrom(ip, path) ==
    <<[ts |-> Requested.ts, ip |-> ip, method |-> Requested.method,
       path |-> path, status |-> Requested.status]>>

LEMMA AccessLineRead ==
    ASSUME NEW r \in NginxFacts, NEW res, res = ParseNginxLine(Logged(r), r.format)
    PROVE  /\ r.words => \E ip \in Clients \cup Trusted, path \in {Requested.path, WithQuery} :
                            (r.parses => path = Requested.path) /\ res = RequestFrom(ip, path)
           /\ (r.format = "json" \/ r.proxies = <<>>) =>
                \A i \in DOMAIN res : res[i].ip = r.client
<1> DEFINE line == Logged(r)
<1>1. /\ r.client \in Clients /\ r.format \in {"combined", "json"} /\ r.split \in BOOLEAN
      /\ r.query \in BOOLEAN /\ r.words \in BOOLEAN /\ r.parses \in BOOLEAN
  BY NginxFactShape
<1> DEFINE uri == [path |-> Requested.path, query |-> r.query, parses |-> r.parses]
           no == [path |-> "", query |-> FALSE, parses |-> FALSE]
           path == PathOf(uri)
<1>2. /\ line.time = Requested.ts /\ line.status = Requested.status /\ line.stamps = r.stamps
      /\ line.request = (IF r.words /\ (~r.split \/ r.format = "combined")
                         THEN <<[method |-> Requested.method, uri |-> uri]>> ELSE <<>>)
      /\ line.request_method = (IF r.split /\ r.format = "json" THEN Requested.method ELSE "")
      /\ line.uri = (IF r.split /\ r.format = "json" THEN uri ELSE no)
  BY DEF Logged
<1>3. /\ line.remote_addr \in Clients \cup Trusted
      /\ clientOf(line.remote_addr, <<>>) \in Clients \cup Trusted
      /\ r.proxies = <<>> => clientOf(line.remote_addr, <<>>) = r.client
      /\ clientOf(line.remote_addr, line.http_x_forwarded_for) = r.client
  BY ClientOfHeader
<1> HIDE DEF line
<1>4. Requested.method # "" /\ Requested.path # ""
  BY DEF Requested
<1>7. path \in {Requested.path, WithQuery} /\ (r.parses => path = Requested.path)
  BY DEF PathOf
<1> HIDE DEF path
<1>5. CASE r.format = "combined"
  <2>1. CASE r.words
    <3>1. line.request = <<[method |-> Requested.method, uri |-> uri]>>
      BY <1>2, <1>5, <2>1, Zenon
    <3>2. /\ line.request # <<>> /\ line.request[1].method = Requested.method
          /\ line.request[1].uri = uri
      BY <3>1
    <3>3. res = newNginxEvent(line, <<>>, line.request[1].method, line.request[1].uri, line.time)
      BY <1>5, <3>2 DEF ParseNginxLine, line
    <3>4. res = RequestFrom(clientOf(line.remote_addr, <<>>), path)
      BY <1>2, <3>2, <3>3 DEF newNginxEvent, path, RequestFrom
    <3>5. \A i \in DOMAIN res : res[i].ip = clientOf(line.remote_addr, <<>>)
      BY <3>4 DEF RequestFrom
    <3> QED BY <1>3, <1>5, <1>7, <3>4, <3>5
  <2>2. CASE ~r.words
    <3>1. line.request = <<>>
      BY <1>2, <2>2
    <3>2. res = <<>>
      BY <1>5, <3>1 DEF ParseNginxLine, line
    <3>3. \A i \in DOMAIN res : FALSE
      BY <3>2
    <3> QED BY <2>2, <3>3
  <2> QED BY <1>1, <2>1, <2>2
<1>6. CASE r.format = "json"
  <2> DEFINE request == IF line.request # <<>> THEN line.request[1]
                        ELSE [method |-> "", uri |-> line.uri]
             method == Or(line.request_method, request.method)
             target == IF line.uri.path # "" THEN line.uri ELSE request.uri
  <2>1. res = IF nginxJSONTimestamp(line.stamps)
              THEN newNginxEvent(line, line.http_x_forwarded_for, method, target, line.time)
              ELSE <<>>
    BY <1>6 DEF ParseNginxLine, parseNginxJSON, line
  <2>2. nginxJSONTimestamp(line.stamps)
    <3>1. /\ r.stamps \in [time_iso8601 : {"", "good"}, timestamp : {"", "good", "other"},
                           time_local : {"", "good"}, msec : {"", "good"}]
          /\ \E key \in DOMAIN r.stamps : r.stamps[key] = "good"
      BY NginxFactShape
    <3>2. DOMAIN r.stamps = {"time_iso8601", "timestamp", "time_local", "msec"}
      BY <3>1
    <3>3. PICK key \in {"time_iso8601", "timestamp", "time_local", "msec"} : r.stamps[key] = "good"
      BY <3>1, <3>2
    <3>4. \/ r.stamps.time_iso8601 = "good" \/ r.stamps.timestamp = "good"
          \/ r.stamps.time_local = "good" \/ r.stamps.msec = "good"
      BY <3>3
    <3>5. r.stamps.time_local \in {"", "good"}
      BY <3>1
    <3> QED BY <1>2, <3>4, <3>5 DEF nginxJSONTimestamp
  <2>3. res = <<[ts |-> line.time, ip |-> r.client, method |-> method,
                 path |-> PathOf(target), status |-> line.status]>>
    BY <1>3, <2>1, <2>2 DEF newNginxEvent
  <2>4. ASSUME r.words PROVE method = Requested.method /\ target = uri
    <3>1. CASE r.split
      <4>1. line.request_method = Requested.method /\ line.uri = uri
        BY <1>2, <1>6, <3>1
      <4>2. line.uri.path = Requested.path
        BY <4>1
      <4>3. method = Requested.method
        BY <1>4, <4>1 DEF Or
      <4>4. target = uri
        BY <1>4, <4>1, <4>2
      <4> QED BY <4>3, <4>4
    <3>2. CASE ~r.split
      <4>1. line.request_method = "" /\ line.uri = no
        BY <1>2, <3>2, Zenon
      <4>2. line.uri.path = ""
        <5>1. no.path = ""
          OBVIOUS
        <5> HIDE DEF no
        <5> QED BY <4>1, <5>1
      <4>3. line.request = <<[method |-> Requested.method, uri |-> uri]>>
        BY <1>2, <2>4, <3>2, Zenon
      <4>4. line.request # <<>> /\ line.request[1] = [method |-> Requested.method, uri |-> uri]
        BY <4>3
      <4>5. request.method = Requested.method /\ request.uri = uri
        BY <4>4
      <4>6. method = Requested.method
        BY <4>1, <4>5 DEF Or
      <4>7. target = uri
        BY <4>2, <4>5
      <4> QED BY <4>6, <4>7
    <3> QED BY <1>1, <3>1, <3>2
  <2> HIDE DEF method, target
  <2>5. \A i \in DOMAIN res : res[i].ip = r.client
    BY <2>3
  <2>6. r.words => res = RequestFrom(r.client, path)
    BY <1>2, <2>3, <2>4 DEF RequestFrom, path
  <2> QED BY <1>1, <1>7, <2>5, <2>6
<1> QED BY <1>1, <1>5, <1>6

(* Both properties, of the line that was read.                                *)
LEMMA AccessLineStep ==
    ASSUME Facts, ReadAccessLine PROVE (ClientNamed /\ FormatsAgree)'
<1>1. /\ input \in NginxFacts /\ input' = input
      /\ result' = ParseNginxLine(Logged(input), input.format)
  BY KindOfFact DEF ReadAccessLine
<1>2. PICK r : r = input
  OBVIOUS
<1>3. PICK res : res = result'
  OBVIOUS
<1>4. r \in NginxFacts /\ res = ParseNginxLine(Logged(r), r.format)
  BY <1>1, <1>2, <1>3
<1>5. /\ r.words => \E ip \in Clients \cup Trusted, path \in {Requested.path, WithQuery} :
            /\ r.parses => path = Requested.path
            /\ res = <<[ts |-> Requested.ts, ip |-> ip, method |-> Requested.method,
                        path |-> path, status |-> Requested.status]>>
      /\ (r.format = "json" \/ r.proxies = <<>>) => \A i \in DOMAIN res : res[i].ip = r.client
  BY <1>4, AccessLineRead DEF RequestFrom
<1> QED BY <1>1, <1>2, <1>3, <1>5 DEF ClientNamed, FormatsAgree

LEMMA AccessLineInductive ==
    Facts /\ ClientNamed /\ FormatsAgree /\ [InputNext]_vars => (ClientNamed /\ FormatsAgree)'
<1> SUFFICES ASSUME Facts, ClientNamed, FormatsAgree, [InputNext]_vars
             PROVE  (ClientNamed /\ FormatsAgree)'
  OBVIOUS
<1>1. CASE ReadAccessLine
  BY <1>1, AccessLineStep
<1>2. CASE ReadMailLine \/ ReadBlockRequest
  BY <1>2 DEF ReadMailLine, ReadBlockRequest, ClientNamed, FormatsAgree
<1>3. CASE UNCHANGED vars
  BY <1>3 DEF vars, ClientNamed, FormatsAgree
<1> QED BY <1>1, <1>2, <1>3 DEF InputNext

(* "Use forwarded IP only for trusted proxy": newNginxEvent and               *)
(* forwardedClientIP name the client that called the first proxy, behind any  *)
(* number of trusted proxies and whatever header the client sent itself.      *)
THEOREM ClientIsNamed == InputSpec => []ClientNamed
<1>1. InputInit => Facts /\ ClientNamed /\ FormatsAgree
  BY DEF InputInit, Facts, ClientNamed, FormatsAgree
<1>2. Facts /\ ClientNamed /\ FormatsAgree /\ [InputNext]_vars => (Facts /\ ClientNamed /\ FormatsAgree)'
  BY AccessLineInductive, FactsKept
<1> QED BY <1>1, <1>2, PTL DEF InputSpec

(* ParseNginxLine reads the same request from every log format, whichever of  *)
(* the time and request fields it has; a query is part of the path only where *)
(* the path does not parse.                                                   *)
THEOREM FormatsReadAlike == InputSpec => []FormatsAgree
<1>1. InputInit => Facts /\ ClientNamed /\ FormatsAgree
  BY DEF InputInit, Facts, ClientNamed, FormatsAgree
<1>2. Facts /\ ClientNamed /\ FormatsAgree /\ [InputNext]_vars => (Facts /\ ClientNamed /\ FormatsAgree)'
  BY AccessLineInductive, FactsKept
<1> QED BY <1>1, <1>2, PTL DEF InputSpec

----------------------------------------------------------------------------
(* Mail log lines: the calendar.                                             *)

LEMMA YearLength ==
    ASSUME NEW z \in Int
    PROVE  /\ YearStart(z) \in Int
           /\ YearStart(z + 1) = YearStart(z) + (IF IsLeap(z) THEN 366 ELSE 365)
<1>1. z \div 4 - (z - 1) \div 4 = IF z % 4 = 0 THEN 1 ELSE 0
  OBVIOUS
<1>2. z \div 100 - (z - 1) \div 100 = IF z % 100 = 0 THEN 1 ELSE 0
  OBVIOUS
<1>3. z \div 400 - (z - 1) \div 400 = IF z % 400 = 0 THEN 1 ELSE 0
  OBVIOUS
<1>4. (z % 400 = 0 => z % 100 = 0) /\ (z % 100 = 0 => z % 4 = 0)
  OBVIOUS
<1>5. /\ z \div 4 \in Int /\ z \div 100 \in Int /\ z \div 400 \in Int
      /\ (z - 1) \div 4 \in Int /\ (z - 1) \div 100 \in Int /\ (z - 1) \div 400 \in Int
  OBVIOUS
<1>6. YearStart(z) = 365 * z + (z - 1) \div 4 - (z - 1) \div 100 + (z - 1) \div 400
  BY DEF YearStart
<1>7. YearStart(z + 1) = 365 * (z + 1) + z \div 4 - z \div 100 + z \div 400
  <2>1. (z + 1) - 1 = z
    OBVIOUS
  <2> QED BY <2>1 DEF YearStart
<1>8. IsLeap(z) <=> z % 4 = 0 /\ (z % 100 # 0 \/ z % 400 = 0)
  BY DEF IsLeap
<1> QED BY <1>1, <1>2, <1>3, <1>4, <1>5, <1>6, <1>7, <1>8

(* Months begin in their year, and end in it.                                 *)
LEMMA MonthInYear ==
    ASSUME NEW y \in Int, NEW m \in 1..12
    PROVE  /\ MonthStart(y, m) \in Nat
           /\ MonthStart(y, m) + MonthDays(y, m) <= IF IsLeap(y) THEN 366 ELSE 365
<1> DEFINE start == <<0, 31, 59, 90, 120, 151, 181, 212, 243, 273, 304, 334>>[m]
           days == <<31, 28, 31, 30, 31, 30, 31, 31, 30, 31, 30, 31>>[m]
<1>1. start \in Nat /\ days \in Nat /\ start + days <= 365 /\ (m <= 2 => start + days <= 59)
  OBVIOUS
<1>2. MonthStart(y, m) = start + (IF IsLeap(y) /\ m > 2 THEN 1 ELSE 0)
  BY DEF MonthStart
<1>3. MonthDays(y, m) = IF m = 2 /\ IsLeap(y) THEN 29 ELSE days
  BY DEF MonthDays
<1>4. m = 2 => start = 31
  OBVIOUS
<1> HIDE DEF start, days
<1> QED BY <1>1, <1>2, <1>3, <1>4

(* The same date a year later is 365 or 366 days later, February 29 of a      *)
(* common year being March 1.                                                 *)
LEMMA DateStep ==
    ASSUME NEW z \in Int, NEW s, s.month \in 1..12, s.day \in Nat, s.half \in {0, 1}
    PROVE  Date(z, s) \in Int /\ Date(z + 1, s) \in {Date(z, s) + 730, Date(z, s) + 732}
<1> DEFINE start == <<0, 31, 59, 90, 120, 151, 181, 212, 243, 273, 304, 334>>[s.month]
           late == s.month > 2
<1>1. start \in Nat
  OBVIOUS
<1>2. /\ MonthStart(z, s.month) = start + (IF IsLeap(z) /\ late THEN 1 ELSE 0)
      /\ MonthStart(z + 1, s.month) = start + (IF IsLeap(z + 1) /\ late THEN 1 ELSE 0)
  BY DEF MonthStart
<1>3. YearStart(z) \in Int /\ YearStart(z + 1) = YearStart(z) + (IF IsLeap(z) THEN 366 ELSE 365)
  BY YearLength
<1>4. /\ Date(z, s) = 2 * (YearStart(z) + MonthStart(z, s.month) + s.day - 1) + s.half
      /\ Date(z + 1, s) = 2 * (YearStart(z + 1) + MonthStart(z + 1, s.month) + s.day - 1) + s.half
  BY DEF Date
<1> HIDE DEF start, late
<1>5. CASE late
  BY <1>1, <1>2, <1>3, <1>4, <1>5
<1>6. CASE ~late
  BY <1>1, <1>2, <1>3, <1>4, <1>6
<1> QED BY <1>5, <1>6

LEMMA DateInYear ==
    ASSUME NEW y \in Int, NEW s, s.month \in 1..12, s.day \in 1..MonthDays(y, s.month),
           s.half \in {0, 1}
    PROVE  2 * YearStart(y) <= Date(y, s) /\ Date(y, s) < 2 * YearStart(y + 1)
<1>1. /\ MonthStart(y, s.month) \in Nat /\ MonthDays(y, s.month) \in Nat
      /\ MonthStart(y, s.month) + MonthDays(y, s.month) <= IF IsLeap(y) THEN 366 ELSE 365
  <2>1. MonthDays(y, s.month) \in 28..31
    BY MonthDaysType
  <2>2. MonthDays(y, s.month) \in Nat
    BY <2>1
  <2>3. /\ MonthStart(y, s.month) \in Nat
        /\ MonthStart(y, s.month) + MonthDays(y, s.month) <= IF IsLeap(y) THEN 366 ELSE 365
    BY MonthInYear, Zenon
  <2> QED BY <2>2, <2>3
<1>2. YearStart(y) \in Int /\ YearStart(y + 1) = YearStart(y) + (IF IsLeap(y) THEN 366 ELSE 365)
  BY YearLength
<1>3. Date(y, s) = 2 * (YearStart(y) + MonthStart(y, s.month) + s.day - 1) + s.half
  BY DEF Date
<1>4. s.day \in Nat /\ 1 <= s.day /\ s.day <= MonthDays(y, s.month)
  BY <1>1
<1> QED BY <1>1, <1>2, <1>3, <1>4

(* A line read within half a year of its date is read in that year or one     *)
(* beside it.                                                                 *)
LEMMA YearOfNow ==
    ASSUME NEW y \in Int, NEW now \in Int, 2 * YearStart(y) - 364 <= now,
           now < 2 * YearStart(y + 1) + 364
    PROVE  YearOf(now, y) \in (y - 1)..(y + 1)
<1> DEFINE Here(z) == 2 * YearStart(z) <= now /\ now < 2 * YearStart(z + 1)
<1>1. /\ YearStart(y - 1) \in Int /\ YearStart(y) \in Int /\ YearStart(y + 1) \in Int
      /\ YearStart(y + 2) \in Int
      /\ YearStart(y) >= YearStart(y - 1) + 365 /\ YearStart(y + 2) >= YearStart(y + 1) + 365
  <2>1. /\ YearStart(y - 1) \in Int /\ YearStart(y) \in Int /\ YearStart(y + 1) \in Int
        /\ YearStart(y + 2) \in Int
    BY YearLength
  <2>2. YearStart((y - 1) + 1) = YearStart(y - 1) + (IF IsLeap(y - 1) THEN 366 ELSE 365)
    BY YearLength
  <2>3. YearStart((y + 1) + 1) = YearStart(y + 1) + (IF IsLeap(y + 1) THEN 366 ELSE 365)
    BY YearLength
  <2>4. (y - 1) + 1 = y /\ (y + 1) + 1 = y + 2
    OBVIOUS
  <2> QED BY <2>1, <2>2, <2>3, <2>4
<1>2. Here(y - 1) \/ Here(y) \/ Here(y + 1)
  <2>1. (y - 1) + 1 = y /\ (y + 1) + 1 = y + 2
    OBVIOUS
  <2> QED BY <1>1, <2>1
<1> HIDE DEF Here
<1>3. \E z \in (y - 1)..(y + 1) : Here(z)
  BY <1>2
<1>4. YearOf(now, y) = CHOOSE z \in (y - 1)..(y + 1) : Here(z)
  BY DEF YearOf, Here
<1> QED BY <1>3, <1>4

(* inferLegacyTimestamp finds the year of a stamp that is no more than 182    *)
(* days away.                                                                 *)
LEMMA LegacyYear ==
    ASSUME NEW y \in Int, NEW s, s.month \in 1..12, s.day \in Nat, s.half \in {0, 1},
           NEW lag \in -364..364, NEW now \in Int, now = Date(y, s) + lag,
           NEW year \in (y - 1)..(y + 1)
    PROVE  inferLegacyTimestamp(now, year, s) = Date(y, s)
<1> DEFINE D(z) == Date(z, s)
           Distance(z) == absDuration(Date(z, s) - now)
           Better(best, z) == IF Distance(z) < Distance(best) THEN z ELSE best
<1>1. \A z \in Int : D(z) \in Int /\ D(z + 1) \in {D(z) + 730, D(z) + 732}
  BY DateStep
<1>2. inferLegacyTimestamp(now, year, s) = D(Better(Better(year, year - 1), year + 1))
  BY DEF inferLegacyTimestamp
<1> HIDE DEF D
<1>3. /\ D(y - 1) \in Int /\ D(y) \in Int /\ D(y + 1) \in Int
      /\ D(y - 2) \in Int /\ D(y + 2) \in Int
      /\ D(y - 1) <= D(y) - 730 /\ D(y - 2) <= D(y) - 730
      /\ D(y + 1) >= D(y) + 730 /\ D(y + 2) >= D(y) + 730
  <2>1. (y - 2) + 1 = y - 1 /\ (y - 1) + 1 = y /\ (y + 1) + 1 = y + 2
    OBVIOUS
  <2>2. D((y - 2) + 1) \in {D(y - 2) + 730, D(y - 2) + 732} /\ D(y - 2) \in Int
    BY <1>1
  <2>3. D((y - 1) + 1) \in {D(y - 1) + 730, D(y - 1) + 732} /\ D(y - 1) \in Int
    BY <1>1
  <2>4. D(y + 1) \in {D(y) + 730, D(y) + 732} /\ D(y) \in Int
    BY <1>1
  <2>5. D((y + 1) + 1) \in {D(y + 1) + 730, D(y + 1) + 732} /\ D(y + 1) \in Int
    BY <1>1
  <2> QED BY <2>1, <2>2, <2>3, <2>4, <2>5
<1>4. now = D(y) + lag
  BY DEF D
<1>5. \A z : Distance(z) = absDuration(D(z) - now)
  BY DEF D
<1>6. Distance(y) \in 0..364
  BY <1>3, <1>4, <1>5 DEF absDuration
<1>7. \A z \in {y - 2, y - 1, y + 1, y + 2} : Distance(z) \in Int /\ Distance(z) > 364
  BY <1>3, <1>4, <1>5 DEF absDuration
<1> HIDE DEF Distance
<1>8. \A z \in {y - 2, y - 1, y + 1, y + 2} : Better(y, z) = y /\ Better(z, y) = y
  BY <1>6, <1>7
<1>9. \A b, z \in {y - 2, y - 1, y + 1, y + 2} : Better(b, z) \in {b, z}
  OBVIOUS
<1> HIDE DEF Better
<1>10. Better(Better(year, year - 1), year + 1) = y
  <2>1. CASE year = y
    <3>1. year - 1 = y - 1 /\ year + 1 = y + 1
      BY <2>1
    <3> QED BY <1>8, <2>1, <3>1
  <2>2. CASE year = y - 1
    <3>1. year - 1 = y - 2 /\ year + 1 = y
      BY <2>2
    <3>2. Better(year, year - 1) \in {y - 1, y - 2}
      BY <1>9, <2>2, <3>1
    <3> QED BY <1>8, <3>1, <3>2
  <2>3. CASE year = y + 1
    <3>1. year - 1 = y /\ year + 1 = y + 2
      BY <2>3
    <3>2. Better(year, year - 1) = y
      BY <1>8, <2>3, <3>1
    <3> QED BY <1>8, <3>1, <3>2
  <2> QED BY <2>1, <2>2, <2>3
<1> QED BY <1>2, <1>10 DEF D

----------------------------------------------------------------------------
(* Mail log lines: what the daemons say.                                     *)

LEMMA ValueFound ==
    ASSUME NEW pairs, Len(pairs) \in Nat, NEW k \in 1..Len(pairs),
           \A i \in 1..Len(pairs) : pairs[i][1] = pairs[k][1] => i = k
    PROVE  ValueOf(pairs, pairs[k][1]) = pairs[k][2]
<1> DEFINE places == {i \in 1..Len(pairs) : pairs[i][1] = pairs[k][1]}
<1>1. places \subseteq Int /\ k \in places /\ \A i \in places : i <= k
  OBVIOUS
<1>2. Max(places) = k
  BY <1>1, MaxIs
<1> HIDE DEF places
<1>3. ValueOf(pairs, pairs[k][1]) = IF places = {} THEN "" ELSE pairs[Max(places)][2]
  BY DEF ValueOf, places
<1> QED BY <1>1, <1>2, <1>3

LEMMA ValueMissing ==
    ASSUME NEW pairs, NEW key, \A i \in 1..Len(pairs) : pairs[i][1] # key
    PROVE  ValueOf(pairs, key) = ""
BY DEF ValueOf

(* The pairs of the two Postfix daemons, and of the others, which write none. *)
LEMMA QmgrPairs ==
    ASSUME NEW f, NEW p, p = <<<<"from", f>>, <<"nrcpt", "1">>>>
    PROVE  ValueOf(p, "from") = f /\ ValueOf(p, "to") = "" /\ ValueOf(p, "status") = ""
<1>1. /\ Len(p) = 2 /\ p[1][1] = "from" /\ p[1][2] = f /\ p[2][1] = "nrcpt"
      /\ \A i \in 1..2 : i = 1 \/ i = 2
  OBVIOUS
<1>2. /\ \A i \in 1..Len(p) : p[i][1] = "from" => i = 1
      /\ \A i \in 1..Len(p) : p[i][1] # "to" /\ p[i][1] # "status"
  BY <1>1
<1>3. ValueOf(p, p[1][1]) = p[1][2]
  <2>1. Len(p) \in Nat /\ 1 \in 1..Len(p) /\ \A i \in 1..Len(p) : p[i][1] = p[1][1] => i = 1
    BY <1>1, <1>2
  <2> QED BY <2>1, ValueFound, Zenon
<1> QED BY <1>1, <1>2, <1>3, ValueMissing

LEMMA SmtpPairs ==
    ASSUME NEW p, Len(p) = 3, p[1][1] = "to", p[2][1] = "dsn", p[3][1] = "status"
    PROVE  /\ ValueOf(p, "from") = "" /\ ValueOf(p, "to") = p[1][2]
           /\ ValueOf(p, "status") = p[3][2]
<1>1. \A i \in 1..3 : i = 1 \/ i = 2 \/ i = 3
  OBVIOUS
<1>2. /\ \A i \in 1..Len(p) : p[i][1] = "to" => i = 1
      /\ \A i \in 1..Len(p) : p[i][1] = "status" => i = 3
      /\ \A i \in 1..Len(p) : p[i][1] # "from"
  BY <1>1
<1>3. ValueOf(p, p[1][1]) = p[1][2]
  <2>1. Len(p) \in Nat /\ 1 \in 1..Len(p) /\ \A i \in 1..Len(p) : p[i][1] = p[1][1] => i = 1
    BY <1>1, <1>2
  <2> QED BY <2>1, ValueFound, Zenon
<1>4. ValueOf(p, p[3][1]) = p[3][2]
  <2>1. Len(p) \in Nat /\ 3 \in 1..Len(p) /\ \A i \in 1..Len(p) : p[i][1] = p[3][1] => i = 3
    BY <1>1, <1>2
  <2> QED BY <2>1, ValueFound, Zenon
<1> QED BY <1>1, <1>2, <1>3, <1>4, ValueMissing

LEMMA NoPairs == \A key : ValueOf(<<>>, key) = ""
<1> SUFFICES ASSUME NEW key, NEW p, p = <<>> PROVE ValueOf(p, key) = ""
  BY Zenon
<1>1. \A i \in 1..Len(p) : p[i][1] # key
  OBVIOUS
<1> QED BY <1>1, ValueMissing

(* The verdict a daemon writes is the one ParseLine reads.                    *)
LEMMA VerdictRead ==
    ASSUME NEW status \in {"", "passed clean", "passed spam", "passed spammy", "blocked spam"}
    PROVE  Verdict[CHOOSE v \in DOMAIN Verdict : Verdict[v] = status] = status
<1> DEFINE V == {"", "Passed CLEAN", "Passed SPAM", "Passed SPAMMY", "Blocked SPAM"}
<1>1. /\ DOMAIN Verdict = V
      /\ Verdict[""] = "" /\ Verdict["Passed CLEAN"] = "passed clean"
      /\ Verdict["Passed SPAM"] = "passed spam" /\ Verdict["Passed SPAMMY"] = "passed spammy"
      /\ Verdict["Blocked SPAM"] = "blocked spam"
  BY DEF Verdict
<1>2. \E v \in DOMAIN Verdict : Verdict[v] = status
  BY <1>1
<1> QED BY <1>2, Zenon

(* What ParseLine reads of a message is what was said, for every statement.   *)
LEMMA MessageRead ==
    ASSUME NEW s \in Statements, NEW q, q # "", NEW w, w = Written(s, q), NEW status,
           status = Or(ValueOf(w.pairs, "status"), Verdict[w.phrases.verdict])
    PROVE  /\ QueueID(w) = q
           /\ Or(ValueOf(w.pairs, "from"), w.phrases.from) = s.from
           /\ Or(ValueOf(w.pairs, "to"), w.phrases.arrow) = s.to
           /\ status = s.status
           /\ IsJunk(w.process, status, w.phrases.mailbox) = s.junk
<1>1. \/ s.daemon = "qmgr" /\ s.to = "" /\ s.status = "" /\ s.junk = FALSE
      \/ s.daemon = "smtp" /\ s.from = "" /\ s.junk = FALSE
      \/ /\ s.daemon = "amavis"
         /\ s.status \in {"passed clean", "passed spam", "passed spammy", "blocked spam"}
         /\ s.junk \in BOOLEAN
         /\ s.junk <=> s.status \in {"passed spam", "passed spammy"}
      \/ /\ s.daemon = "dovecot" /\ s.from = "" /\ s.to = "" /\ s.status = ""
         /\ s.junk \in BOOLEAN
  <2>1. CASE s \in {Says("qmgr", from, "", "", FALSE) : from \in {"", "sender"}}
    <3>1. PICK from, j : s = Says("qmgr", from, "", "", j) /\ j = FALSE
      BY <2>1
    <3>2. s.daemon = "qmgr" /\ s.to = "" /\ s.status = "" /\ s.junk = j
      BY <3>1 DEF Says
    <3> QED BY <3>1, <3>2, Zenon
  <2>2. CASE s \in {Says("smtp", "", "rcpt", st, FALSE) : st \in {"sent", "deferred"}}
    <3>1. PICK st, j : s = Says("smtp", "", "rcpt", st, j) /\ j = FALSE
      BY <2>2
    <3>2. s.daemon = "smtp" /\ s.from = "" /\ s.junk = j
      BY <3>1 DEF Says
    <3> QED BY <3>1, <3>2, Zenon
  <2>3. CASE s \in {Says("amavis", "sender", "rcpt", st, st # "passed clean") :
                      st \in {"passed clean", "passed spam", "passed spammy"}}
    <3>1. PICK st \in {"passed clean", "passed spam", "passed spammy"}, j \in BOOLEAN :
                 s = Says("amavis", "sender", "rcpt", st, j) /\ (j <=> st # "passed clean")
      BY <2>3
    <3>2. s.daemon = "amavis" /\ s.status = st /\ s.junk = j
      BY <3>1 DEF Says
    <3> QED BY <3>1, <3>2
  <2>4. CASE s = Says("amavis", "sender", "rcpt", "blocked spam", FALSE)
    <3>1. PICK j : j = FALSE
      OBVIOUS
    <3>2. s.daemon = "amavis" /\ s.status = "blocked spam" /\ s.junk = j
      BY <2>4, <3>1 DEF Says
    <3>3. s.junk \in BOOLEAN /\ ~s.junk
      BY <3>1, <3>2, Zenon
    <3> QED BY <3>2, <3>3
  <2>5. CASE s \in {Says("dovecot", "", "", "", junk) : junk \in BOOLEAN}
    <3>1. PICK junk \in BOOLEAN : s = Says("dovecot", "", "", "", junk)
      BY <2>5
    <3>2. s.daemon = "dovecot" /\ s.from = "" /\ s.to = "" /\ s.status = "" /\ s.junk = junk
      BY <3>1 DEF Says
    <3> QED BY <3>2
  <2> QED BY <2>1, <2>2, <2>3, <2>4, <2>5 DEF Statements
<1>2. \A x : Or("", x) = x /\ Or(x, "") = x
  BY DEF Or
<1>3. Verdict[""] = ""
  BY DEF Verdict
<1>4. CASE s.daemon \in {"qmgr", "smtp"}
  <2>1. /\ w.process = "postfix" /\ w.prefix = q /\ w.phrases = Silent
        /\ w.pairs = IF s.daemon = "qmgr" THEN <<<<"from", s.from>>, <<"nrcpt", "1">>>>
                     ELSE <<<<"to", s.to>>, <<"dsn", "2.0.0">>, <<"status", s.status>>>>
    BY <1>4 DEF Written
  <2>2. /\ w.phrases.from = "" /\ w.phrases.arrow = "" /\ w.phrases.verdict = ""
    <3>1. Silent.from = "" /\ Silent.arrow = "" /\ Silent.verdict = ""
      BY DEF Silent
    <3> QED BY <2>1, <3>1
  <2>3. QueueID(w) = q
    BY <2>1 DEF QueueID, Or
  <2>4. /\ ValueOf(w.pairs, "from") = s.from /\ ValueOf(w.pairs, "to") = s.to
        /\ ValueOf(w.pairs, "status") = s.status
    <3>1. CASE s.daemon = "qmgr"
      <4>1. w.pairs = <<<<"from", s.from>>, <<"nrcpt", "1">>>> /\ s.to = "" /\ s.status = ""
        BY <1>1, <2>1, <3>1
      <4> QED BY <4>1, QmgrPairs, Zenon
    <3>2. CASE s.daemon = "smtp"
      <4>1. w.pairs = <<<<"to", s.to>>, <<"dsn", "2.0.0">>, <<"status", s.status>>>> /\ s.from = ""
        BY <1>1, <2>1, <3>2
      <4>2. PICK p : p = w.pairs
        OBVIOUS
      <4>3. /\ Len(p) = 3 /\ p[1][1] = "to" /\ p[2][1] = "dsn" /\ p[3][1] = "status"
            /\ p[1][2] = s.to /\ p[3][2] = s.status
        <5> DEFINE x == <<<<"to", s.to>>, <<"dsn", "2.0.0">>, <<"status", s.status>>>>
        <5>1. /\ Len(x) = 3 /\ x[1][1] = "to" /\ x[2][1] = "dsn" /\ x[3][1] = "status"
              /\ x[1][2] = s.to /\ x[3][2] = s.status
          OBVIOUS
        <5> HIDE DEF x
        <5>2. p = x
          BY <4>1, <4>2, Zenon DEF x
        <5> QED BY <5>1, <5>2
      <4>4. ValueOf(p, "from") = "" /\ ValueOf(p, "to") = s.to /\ ValueOf(p, "status") = s.status
        BY <4>3, SmtpPairs
      <4> QED BY <4>1, <4>2, <4>4
    <3> QED BY <1>4, <3>1, <3>2
  <2>5. status = s.status
    BY <1>2, <1>3, <2>2, <2>4
  <2>6. s.junk = FALSE /\ ~IsJunk(w.process, status, w.phrases.mailbox)
    BY <1>1, <1>4, <2>1 DEF IsJunk
  <2>7. /\ Or(ValueOf(w.pairs, "from"), w.phrases.from) = s.from
        /\ Or(ValueOf(w.pairs, "to"), w.phrases.arrow) = s.to
    BY <1>2, <2>2, <2>4
  <2>8. IsJunk(w.process, status, w.phrases.mailbox) = FALSE
    BY <2>6, Zenon DEF IsJunk
  <2> QED BY <2>3, <2>5, <2>6, <2>7, <2>8
<1>5. CASE s.daemon \in {"amavis", "dovecot"}
  <2> DEFINE v == CHOOSE x \in DOMAIN Verdict : Verdict[x] = s.status
             box == IF s.daemon = "dovecot" /\ s.junk THEN "Junk" ELSE ""
  <2>1. /\ w.process = s.daemon /\ w.prefix = "" /\ w.pairs = <<>>
        /\ w.phrases = [queueID |-> q, from |-> s.from, arrow |-> s.to, verdict |-> v, mailbox |-> box]
    BY <1>5 DEF Written
  <2>2. Verdict[v] = s.status
    <3>1. s.status \in {"", "passed clean", "passed spam", "passed spammy", "blocked spam"}
      BY <1>1, <1>5
    <3> QED BY <3>1, VerdictRead, Zenon
  <2> HIDE DEF v, box
  <2>3. /\ w.phrases.queueID = q /\ w.phrases.from = s.from /\ w.phrases.arrow = s.to
        /\ w.phrases.verdict = v /\ w.phrases.mailbox = box
    <3> DEFINE p == [queueID |-> q, from |-> s.from, arrow |-> s.to, verdict |-> v, mailbox |-> box]
    <3>1. /\ p.queueID = q /\ p.from = s.from /\ p.arrow = s.to /\ p.verdict = v /\ p.mailbox = box
      OBVIOUS
    <3> HIDE DEF p
    <3>2. w.phrases = p
      BY <2>1 DEF p
    <3> QED BY <3>1, <3>2
  <2>4. QueueID(w) = q
    BY <2>1, <2>3 DEF QueueID, Or
  <2>5. \A key : ValueOf(w.pairs, key) = ""
    BY <2>1, NoPairs, Zenon
  <2>6. status = s.status
    BY <1>2, <2>2, <2>3, <2>5
  <2>7. IsJunk(w.process, status, w.phrases.mailbox) = s.junk
    <3>1. CASE s.daemon = "amavis"
      <4>1. s.junk \in BOOLEAN /\ (s.junk <=> s.status \in {"passed spam", "passed spammy"})
        BY <1>1, <3>1
      <4>2. IsJunk(w.process, status, w.phrases.mailbox)
              <=> s.status \in {"passed spam", "passed spammy"}
        BY <2>1, <2>6, <3>1 DEF IsJunk
      <4>3. IsJunk(w.process, status, w.phrases.mailbox) \in BOOLEAN
        BY DEF IsJunk
      <4> QED BY <4>1, <4>2, <4>3
    <3>2. CASE s.daemon = "dovecot"
      <4>1. s.junk \in BOOLEAN /\ (s.junk <=> box = "Junk")
        BY <1>1, <3>2 DEF box
      <4>2. IsJunk(w.process, status, w.phrases.mailbox) <=> s.junk
        BY <2>1, <2>3, <3>2, <4>1 DEF IsJunk
      <4>3. IsJunk(w.process, status, w.phrases.mailbox) \in BOOLEAN
        BY DEF IsJunk
      <4> QED BY <4>1, <4>2, <4>3
    <3> QED BY <1>5, <3>1, <3>2
  <2> QED BY <1>2, <2>3, <2>4, <2>5, <2>6, <2>7, ZenonT(30)
<1> QED BY <1>1, <1>4, <1>5

----------------------------------------------------------------------------
(* Mail log lines: the step.                                                 *)

LEMMA MailLineStep ==
    ASSUME MaxLag <= 364, Facts, ReadMailLine PROVE MailLineReadBack'
<1> DEFINE x == input
           y == input.at.year
           stamp == [month |-> input.at.month, day |-> input.at.day, half |-> input.at.half]
           time == Date(y, stamp)
           now == time + input.lag
           year == YearOf(now, y)
           w == Written(input.says, "4f09x")
           line == [time |-> time, stamp |-> stamp, format |-> input.format, message |-> w]
           status == Or(ValueOf(w.pairs, "status"), Verdict[w.phrases.verdict])
           ts == IF input.format = "rfc3339" THEN time ELSE inferLegacyTimestamp(now, year, stamp)
<1>1. /\ input \in MailFacts /\ input' = input /\ read' = TRUE
      /\ result' = ParseLine(line, now, year)
  BY KindOfFact DEF ReadMailLine
<1>2. /\ input.says \in Statements /\ input.format \in {"legacy", "rfc3339"}
      /\ y \in Nat \ {0} /\ input.at.month \in 1..12 /\ input.at.half \in {0, 1}
      /\ input.at.day \in 1..MonthDays(y, input.at.month)
      /\ input.lag \in Int /\ -MaxLag <= input.lag /\ input.lag <= MaxLag
  BY <1>1, MailFactShape
<1>3. /\ line.time = time /\ line.stamp = stamp /\ line.format = input.format /\ line.message = w
  OBVIOUS
<1>4. /\ stamp.month = input.at.month /\ stamp.day = input.at.day /\ stamp.half = input.at.half
  OBVIOUS
<1> HIDE DEF stamp, line, w
<1>5. result' = <<[ts |-> ts, queueID |-> QueueID(w),
                   from |-> Or(ValueOf(w.pairs, "from"), w.phrases.from),
                   to |-> Or(ValueOf(w.pairs, "to"), w.phrases.arrow),
                   status |-> status, junk |-> IsJunk(w.process, status, w.phrases.mailbox)]>>
  BY <1>1, <1>3 DEF ParseLine
<1>6. ts = time
  <2>1. y \in Int /\ stamp.day \in Nat /\ stamp.day \in 1..MonthDays(y, stamp.month)
        /\ stamp.month \in 1..12 /\ stamp.half \in {0, 1}
    BY <1>2, <1>4
  <2>2. time \in Int
    BY <2>1, DateStep
  <2>3. input.lag \in -364..364 /\ now \in Int
    <3>1. MaxLag \in Nat
      BY InputAssumption
    <3> QED BY <1>2, <2>2, <3>1
  <2>4. YearStart(y) \in Int /\ YearStart(y + 1) \in Int
    BY <2>1, YearLength
  <2>5. 2 * YearStart(y) <= time /\ time < 2 * YearStart(y + 1)
    BY <2>1, DateInYear
  <2>6. 2 * YearStart(y) - 364 <= now /\ now < 2 * YearStart(y + 1) + 364
    BY <2>2, <2>3, <2>4, <2>5
  <2>7. year \in (y - 1)..(y + 1)
    BY <2>1, <2>3, <2>6, YearOfNow
  <2>8. PICK lag, n : lag = input.lag /\ n = now
    OBVIOUS
  <2> HIDE DEF year, y
  <2>9. inferLegacyTimestamp(n, year, stamp) = Date(y, stamp)
    <3>1. lag \in -364..364 /\ n \in Int /\ n = Date(y, stamp) + lag
      BY <2>3, <2>8
    <3> QED BY <2>1, <2>7, <3>1, LegacyYear, ZenonT(30)
  <2> QED BY <2>8, <2>9
<1>7. /\ QueueID(w) = "4f09x"
      /\ Or(ValueOf(w.pairs, "from"), w.phrases.from) = input.says.from
      /\ Or(ValueOf(w.pairs, "to"), w.phrases.arrow) = input.says.to
      /\ status = input.says.status
      /\ IsJunk(w.process, status, w.phrases.mailbox) = input.says.junk
  <2>1. PICK s, q, z : s = input.says /\ q = "4f09x" /\ z = status
    OBVIOUS
  <2>2. /\ s \in Statements /\ q # "" /\ w = Written(s, q)
        /\ z = Or(ValueOf(w.pairs, "status"), Verdict[w.phrases.verdict])
    BY <1>2, <2>1 DEF w
  <2>3. /\ QueueID(w) = q /\ Or(ValueOf(w.pairs, "from"), w.phrases.from) = s.from
        /\ Or(ValueOf(w.pairs, "to"), w.phrases.arrow) = s.to
        /\ z = s.status /\ IsJunk(w.process, z, w.phrases.mailbox) = s.junk
    BY <2>2, MessageRead, ZenonT(30)
  <2> QED BY <2>1, <2>3
<1>8. result' = <<[ts |-> time, queueID |-> "4f09x", from |-> input.says.from, to |-> input.says.to,
                   status |-> input.says.status, junk |-> input.says.junk]>>
  BY <1>5, <1>6, <1>7, Zenon
<1> QED BY <1>1, <1>8 DEF MailLineReadBack, stamp

(* ParseLine and inferLegacyTimestamp read every statement of the mail log    *)
(* back as it was meant, in either format and in every year: also a stamp     *)
(* without a year, if it is read within 182 days of its date.                 *)
THEOREM MailLinesReadBack == ASSUME MaxLag <= 364 PROVE InputSpec => []MailLineReadBack
<1> DEFINE Inv == Facts /\ MailLineReadBack
<1>1. InputInit => Inv
  BY DEF InputInit, Facts, MailLineReadBack
<1>2. Inv /\ [InputNext]_vars => Inv'
  <2> SUFFICES ASSUME Inv, [InputNext]_vars PROVE MailLineReadBack'
    BY FactsKept
  <2>1. CASE ReadMailLine
    BY <2>1, MailLineStep
  <2>2. CASE ReadBlockRequest \/ ReadAccessLine
    BY <2>2 DEF ReadBlockRequest, ReadAccessLine, MailLineReadBack
  <2>3. CASE UNCHANGED vars
    BY <2>3 DEF vars, MailLineReadBack
  <2> QED BY <2>1, <2>2, <2>3 DEF InputNext
<1> QED BY <1>1, <1>2, PTL DEF InputSpec
=============================================================================
