------------------------------- MODULE Inputs -------------------------------
(* What the program makes of one input from outside: a mail log line          *)
(* (ParseLine, parser.go), an access log line (ParseNginxLine,                *)
(* nginx_security.go) and the address of a block request (clientIP,           *)
(* server.go, and validateBlockTarget, security.go).  Each input is what      *)
(* another program wrote about some fact; the module states both, the fact    *)
(* as the input and its writing as a definition, and reads it back.           *)
(*                                                                            *)
(* An instant is a number of half-days, in the zone the mail log is read in.  *)
EXTENDS Integers, Sequences, SequencesExt

CONSTANTS
    Years,        \* years in which mail log lines are written
    MaxLag,       \* half-days that may pass before a line is read
    Clients,      \* addresses of browsers
    Trusted,      \* addresses in TRUSTED_PROXY_CIDRS
    Protected,    \* addresses in SECURITY_IP_ALLOWLIST, loopback, multicast ...
    MaxProxies,   \* bound: reverse proxies before nginx
    MaxSent       \* bound: entries of X-Forwarded-For a client sends itself

ASSUME InputAssumption ==
    /\ Years \subseteq Nat \ {0} /\ MaxLag \in Nat \ {0}
    /\ MaxProxies \in Nat /\ MaxSent \in Nat
    /\ Clients \cap Trusted = {} /\ "garbage" \notin Clients

VARIABLES
    input,   \* the fact
    read,    \* has the program read what was written of it?
    result   \* what it made of it: <<>> when it rejects it

vars == <<input, read, result>>

(* s if it is not empty, else t: how both parsers fall back.                  *)
Or(s, t) == IF s # "" THEN s ELSE t

----------------------------------------------------------------------------
(* Calendar: time.Date, which turns February 29 of a common year into March 1. *)

IsLeap(y) == y % 4 = 0 /\ (y % 100 # 0 \/ y % 400 = 0)
MonthStart(y, m) ==
    <<0, 31, 59, 90, 120, 151, 181, 212, 243, 273, 304, 334>>[m]
        + IF IsLeap(y) /\ m > 2 THEN 1 ELSE 0
MonthDays(y, m) ==
    IF m = 2 /\ IsLeap(y) THEN 29
    ELSE <<31, 28, 31, 30, 31, 30, 31, 31, 30, 31, 30, 31>>[m]
YearStart(y) == 365 * y + (y - 1) \div 4 - (y - 1) \div 100 + (y - 1) \div 400
Date(y, stamp) ==
    2 * (YearStart(y) + MonthStart(y, stamp.month) + stamp.day - 1) + stamp.half
YearOf(now, y) == CHOOSE z \in (y - 1)..(y + 1) :
                      2 * YearStart(z) <= now /\ now < 2 * YearStart(z + 1)

(* inferLegacyTimestamp: the date in the current year, unless the one in the   *)
(* last or the next year is nearer to now.                                    *)
absDuration(d) == IF d < 0 THEN -d ELSE d

NeverNextYear(now, year, stamp) ==                                \* mutant
    LET Distance(y) == absDuration(Date(y, stamp) - now)
    IN Date(IF Distance(year - 1) < Distance(year) THEN year - 1 ELSE year, stamp)
inferLegacyTimestamp(now, year, stamp) ==
    LET Distance(y) == absDuration(Date(y, stamp) - now)
        Better(best, y) == IF Distance(y) < Distance(best) THEN y ELSE best
    IN Date(Better(Better(year, year - 1), year + 1), stamp)

----------------------------------------------------------------------------
(* Mail log lines.  What the daemons say of a message: its queue ID, and a     *)
(* sender, a recipient and a status or "", and whether it is junk.            *)
Says(daemon, from, to, status, junk) ==
    [daemon |-> daemon, from |-> from, to |-> to, status |-> status, junk |-> junk]
Statements ==
    {Says("qmgr", from, "", "", FALSE) : from \in {"", "sender"}}
      \cup {Says("smtp", "", "rcpt", status, FALSE) : status \in {"sent", "deferred"}}
      \cup {Says("amavis", "sender", "rcpt", status, status # "passed clean") :
              status \in {"passed clean", "passed spam", "passed spammy"}}
      \cup {Says("amavis", "sender", "rcpt", "blocked spam", FALSE)}
      \cup {Says("dovecot", "", "", "", junk) : junk \in BOOLEAN}

(* How they write it: Postfix puts the queue ID first and then key=value       *)
(* pairs; Amavis and Dovecot use phrases of their own.                        *)
Verdict == [v \in {"", "Passed CLEAN", "Passed SPAM", "Passed SPAMMY", "Blocked SPAM"} |->
              CASE v = "" -> "" [] v = "Passed CLEAN" -> "passed clean"
                [] v = "Passed SPAM" -> "passed spam" [] v = "Passed SPAMMY" -> "passed spammy"
                [] OTHER -> "blocked spam"]
Silent == [queueID |-> "", from |-> "", arrow |-> "", verdict |-> "", mailbox |-> ""]
Written(s, q) ==
    IF s.daemon \in {"qmgr", "smtp"}
    THEN [process |-> "postfix", prefix |-> q, phrases |-> Silent,
          pairs |-> IF s.daemon = "qmgr" THEN <<<<"from", s.from>>, <<"nrcpt", "1">>>>
                    ELSE <<<<"to", s.to>>, <<"dsn", "2.0.0">>, <<"status", s.status>>>>]
    ELSE [process |-> s.daemon, prefix |-> "", pairs |-> <<>>,
          phrases |-> [queueID |-> q, from |-> s.from, arrow |-> s.to,
                       verdict |-> CHOOSE v \in DOMAIN Verdict : Verdict[v] = s.status,
                       mailbox |-> IF s.daemon = "dovecot" /\ s.junk THEN "Junk" ELSE ""]]

(* ParseLine of a line of either format: the word before the first colon is    *)
(* the queue ID, the last pair of a key counts, and phrases fill what pairs    *)
(* leave empty.                                                               *)
ValueOf(pairs, key) ==
    LET places == {i \in 1..Len(pairs) : pairs[i][1] = key}
    IN IF places = {} THEN "" ELSE pairs[Max(places)][2]

QueueID(message) == Or(message.prefix, message.phrases.queueID)
IsJunk(process, status, mailbox) ==
    \/ process = "amavis" /\ status \in {"passed spam", "passed spammy"}
    \/ process = "dovecot" /\ mailbox = "Junk"

ParseLine(line, now, year) ==
    LET message == line.message
        status == Or(ValueOf(message.pairs, "status"), Verdict[message.phrases.verdict])
    IN <<[ts |-> IF line.format = "rfc3339" THEN line.time
                 ELSE inferLegacyTimestamp(now, year, line.stamp),
          queueID |-> QueueID(message),
          from |-> Or(ValueOf(message.pairs, "from"), message.phrases.from),
          to |-> Or(ValueOf(message.pairs, "to"), message.phrases.arrow),
          status |-> status,
          junk |-> IsJunk(message.process, status, message.phrases.mailbox)]>>

(* A statement of some day, read so long after (or, clocks being what they    *)
(* are, before).                                                              *)
Days ==
    {x \in [year : Years, month : 1..12, day : 1..31, half : {0, 1}] :
        x.day <= MonthDays(x.year, x.month)}
Lags == {-MaxLag, -1, 0, 1, MaxLag}
MailFacts ==
    [kind : {"mail"}, says : {Says("smtp", "", "rcpt", "sent", FALSE)}, at : Days,
     lag : Lags, format : {"legacy"}]
      \cup [kind : {"mail"}, says : Statements, lag : {0}, format : {"legacy", "rfc3339"},
            at : [year : Years, month : {2}, day : {28}, half : {0}]]

ReadMailLine ==
    LET stamp == [month |-> input.at.month, day |-> input.at.day, half |-> input.at.half]
        time == Date(input.at.year, stamp)
        now == time + input.lag
    IN /\ input.kind = "mail" /\ ~read
       /\ result' = ParseLine([time |-> time, stamp |-> stamp, format |-> input.format,
                               message |-> Written(input.says, "4f09x")],
                              now, YearOf(now, input.at.year))
       /\ read' = TRUE /\ UNCHANGED input

----------------------------------------------------------------------------
(* Access log lines.  A request goes from a client through trusted proxies to  *)
(* nginx; each proxy appends the address it was called from to the header,     *)
(* which the client may have begun itself, with anything.                     *)
Garbage == "garbage"
Requested == [ts |-> 7, method |-> "GET", path |-> "/admin", status |-> 404]
WithQuery == "/admin?x"
Hop(r, i) == IF i = 0 THEN r.client ELSE r.proxies[i]
NginxFacts ==
    LET stampKeys == [time_iso8601 : {"", "good"}, timestamp : {"", "good", "other"},
                      time_local : {"", "good"}, msec : {"", "good"}]
    IN {r \in [kind : {"nginx"}, client : Clients, proxies : SeqOf(Trusted, MaxProxies),
               sent : SeqOf(Clients \cup Trusted \cup {Garbage}, MaxSent),
               format : {"combined", "json"}, split : BOOLEAN, query : BOOLEAN,
               parses : BOOLEAN, words : BOOLEAN, stamps : stampKeys] :
          /\ \E key \in DOMAIN r.stamps : r.stamps[key] = "good"
          /\ r.format = "combined" => r.stamps.time_iso8601 = "good" /\ r.split
          /\ r.sent # <<>> => r.words /\ ~r.query /\ r.stamps.msec = "good"
          /\ ~r.parses => r.words /\ r.query /\ r.sent = <<>> /\ r.proxies = <<>>}

(* log_format: split writes $request_method and $request_uri, else $request;   *)
(* what comes without two words is a request nginx could not read.            *)
Logged(r) ==
    LET n == Len(r.proxies)
        uri == [path |-> Requested.path, query |-> r.query, parses |-> r.parses]
        no == [path |-> "", query |-> FALSE, parses |-> FALSE]
    IN [remote_addr |-> Hop(r, n),
        http_x_forwarded_for |-> r.sent \o [i \in 1..n |-> Hop(r, i - 1)],
        request |-> IF r.words /\ (~r.split \/ r.format = "combined")
                    THEN <<[method |-> Requested.method, uri |-> uri]>> ELSE <<>>,
        request_method |-> IF r.split /\ r.format = "json" THEN Requested.method ELSE "",
        uri |-> IF r.split /\ r.format = "json" THEN uri ELSE no,
        stamps |-> r.stamps, time |-> Requested.ts, status |-> Requested.status]

isTrustedProxy(ip) == ip \in Trusted

(* The addresses of the header that parse and are no trusted proxies: the      *)
(* loop, from the end of the header, returns the first it meets.              *)
Callers(hops) == {i \in 1..Len(hops) : hops[i] # Garbage /\ ~isTrustedProxy(hops[i])}
FirstForwarded(hops) == hops[Min(Callers(hops))]                  \* mutant
forwardedClientIP(hops) == hops[Max(Callers(hops))]

clientOf(remote, hops) ==
    IF isTrustedProxy(remote) /\ Callers(hops) # {} THEN forwardedClientIP(hops) ELSE remote

(* url.ParseRequestURI(path).Path leaves the query out; a path it does not     *)
(* parse, or parses to nothing, stays what it is.                             *)
PathWithQuery(uri) == IF uri.query THEN WithQuery ELSE uri.path   \* mutant
PathOf(uri) == IF uri.query /\ ~uri.parses THEN WithQuery ELSE uri.path

newNginxEvent(line, hops, method, uri, time) ==
    <<[ts |-> time, ip |-> clientOf(line.remote_addr, hops), method |-> method,
       path |-> PathOf(uri), status |-> line.status]>>

(* The first of time_iso8601 and timestamp that is RFC 3339; else time_local,  *)
(* else msec.                                                                 *)
nginxJSONTimestamp(stamps) ==
    \/ stamps.time_iso8601 = "good" \/ stamps.timestamp = "good"
    \/ stamps.time_local = "good"
    \/ stamps.time_local = "" /\ stamps.msec = "good"

parseNginxJSON(line) ==
    LET request == IF line.request # <<>> THEN line.request[1]
                   ELSE [method |-> "", uri |-> line.uri]
    IN IF nginxJSONTimestamp(line.stamps)
       THEN newNginxEvent(line, line.http_x_forwarded_for,
                          Or(line.request_method, request.method),
                          IF line.uri.path # "" THEN line.uri ELSE request.uri, line.time)
       ELSE <<>>

(* ParseNginxLine; the combined format has no header and needs two words.     *)
ParseNginxLine(line, format) ==
    IF format = "json" THEN parseNginxJSON(line)
    ELSE IF line.request = <<>> THEN <<>>
    ELSE newNginxEvent(line, <<>>, line.request[1].method, line.request[1].uri, line.time)

ReadAccessLine ==
    /\ input.kind = "nginx" /\ ~read
    /\ result' = ParseNginxLine(Logged(input), input.format)
    /\ read' = TRUE /\ UNCHANGED input

----------------------------------------------------------------------------
(* Block requests.  The administrator's browser reaches the API directly,      *)
(* through a reverse proxy that appends whom it calls for to X-Forwarded-For   *)
(* or sets X-Real-IP, or through the route of the frontend, which passes none  *)
(* of these headers on.  The browser, or a forward proxy before it, may have   *)
(* begun either header itself.  An address has several notations; one with a   *)
(* port or a zone, and a word such as "unknown", net.ParseIP does not read.    *)
Text(ip, form) == [ip |-> ip, form |-> form]
Forms == {"plain", "mapped", "unreadable"}
Sent == SeqOf([ip : Clients, form : Forms], 1)
Frontend == CHOOSE ip \in Trusted : TRUE
BlockFacts ==
    [kind : {"block"}, admin : Clients, form : Forms, via : {"direct", "proxy", "realip", "frontend"},
     sent : [forwarded : Sent, realIP : Sent],
     target : [ip : Clients \cup Trusted \cup Protected, form : Forms]]

Headers(r) ==
    LET admin == Text(r.admin, r.form)
        proxy == Text(Frontend, "plain")
    IN [forwarded |-> CASE r.via = "proxy" -> r.sent.forwarded \o <<admin, proxy>>
                        [] r.via = "frontend" -> <<>>
                        [] OTHER -> r.sent.forwarded,
        realIP |-> CASE r.via = "realip" -> <<admin>>
                     [] r.via = "frontend" -> <<>>
                     [] OTHER -> r.sent.realIP,
        remote |-> IF r.via = "direct" THEN admin ELSE proxy]

(* clientIP: the first of X-Forwarded-For, else X-Real-IP, else the peer.      *)
clientIP(h) ==
    IF h.forwarded # <<>> THEN h.forwarded[1]
    ELSE IF h.realIP # <<>> THEN h.realIP[1] ELSE h.remote

(* net.ParseIP(...).Equal: notations of one address are equal.                *)
Reads(text) == text.form # "unreadable"
SameText(a, b) == a = b                                           \* mutant
SameIP(a, b) == a.ip = b.ip

(* Without a readable address of the requester there is nothing to compare.   *)
validateBlockTarget(target, h) ==
    IF \/ ~Reads(target) \/ target.ip \in Protected
       \/ Reads(clientIP(h)) /\ SameIP(clientIP(h), target)
    THEN <<>> ELSE <<[blocked |-> target.ip]>>

ReadBlockRequest ==
    /\ input.kind = "block" /\ ~read
    /\ result' = validateBlockTarget(input.target, Headers(input))
    /\ read' = TRUE /\ UNCHANGED input

----------------------------------------------------------------------------
InputInit ==
    /\ input \in MailFacts \/ input \in NginxFacts \/ input \in BlockFacts
    /\ read = FALSE /\ result = <<>>

InputNext == ReadMailLine \/ ReadAccessLine \/ ReadBlockRequest

InputSpec == InputInit /\ [][InputNext]_vars

----------------------------------------------------------------------------
(* Properties.                                                               *)

(* A mail log line is read back as it was meant, whichever daemon wrote it in  *)
(* whichever format: also a stamp without a year, around the turn of the year *)
(* and on February 29, for lines read up to half a year after (or before)     *)
(* they were written.                                                         *)
MailLineReadBack ==
    read /\ input.kind = "mail" =>
        LET s == input.says
        IN result = <<[ts |-> Date(input.at.year, [month |-> input.at.month,
                                                   day |-> input.at.day, half |-> input.at.half]),
                       queueID |-> "4f09x", from |-> s.from, to |-> s.to,
                       status |-> s.status, junk |-> s.junk]>>

(* "Use forwarded IP only for trusted proxy" (nginx_security_test.go): behind  *)
(* any number of trusted proxies the event names the client that called the   *)
(* first of them, whatever header it sent itself; and a client that calls     *)
(* nginx directly is never taken for another.  The combined format does not   *)
(* carry the header, so there this is about direct calls.                     *)
ClientNamed ==
    read /\ input.kind = "nginx" /\ (input.format = "json" \/ input.proxies = <<>>) =>
        \A i \in DOMAIN result : result[i].ip = input.client

(* The recommended log format, the combined format and formats with other      *)
(* time and request fields report the same request: no request nginx could    *)
(* read is dropped, and a query tells paths apart only where the path itself   *)
(* does not parse.                                                            *)
FormatsAgree ==
    read /\ input.kind = "nginx" /\ input.words =>
        \E ip \in Clients \cup Trusted, path \in {Requested.path, WithQuery} :
            /\ input.parses => path = Requested.path
            /\ result = <<[ts |-> Requested.ts, ip |-> ip, method |-> Requested.method,
                           path |-> path, status |-> Requested.status]>>

(* clientIP can tell whom the request comes from: not through the route of the *)
(* frontend, not if the address is written in a way net.ParseIP does not read, *)
(* and not if the sender's own header comes before what the proxies say.      *)
Recognised(r) ==
    /\ r.via # "frontend" /\ r.form # "unreadable"
    /\ r.sent.forwarded = <<>> /\ (r.via = "direct" => r.sent.realIP = <<>>)

(* "refusing to block the current administrator IP" (security.go:209): an      *)
(* administrator clientIP can recognise is never locked out, in whichever      *)
(* notation the header and the request write the address, and can block every *)
(* other address that is not protected.  Nobody can block a protected one.    *)
NeverLockedOut ==
    read /\ input.kind = "block" =>
        /\ \A i \in DOMAIN result : result[i].blocked \notin Protected
        /\ Recognised(input) =>
             /\ \A i \in DOMAIN result : result[i].blocked # input.admin
             /\ result = <<>> => \/ input.target.form = "unreadable"
                                 \/ input.target.ip \in Protected \cup {input.admin}
=============================================================================
