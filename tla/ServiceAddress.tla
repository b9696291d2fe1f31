---------------------------- MODULE ServiceAddress ----------------------------
(***************************************************************************)
(* ServiceAddress (bf/io/net/bfsocket.cpp): the parts of a url such as     *)
(* udp://127.0.0.1:8080/query, and the type of socket they ask for.        *)
(*                                                                         *)
(* A url is a sequence of ":", "/", names and numbers; no two names or     *)
(* numbers are next to each other.  inet_addr knows the names of Dotted    *)
(* and getservbyname those of Services.                                    *)
(*                                                                         *)
(* Definitions marked "Fault" are the definition after them with a bug, to *)
(* see that the properties notice; no specification uses them.             *)
(***************************************************************************)
EXTENDS Integers, Sequences

CONSTANTS Protocols, Hosts, Dotted,
          Numbers,       \* [numbers as they are written -> their value]
          Starts,        \* [the same -> the values of their first digits]
          Services,      \* [names of services -> their port]
          HTTP, HTTPS, TCP, UDP, \* the spellings, in either case, of a protocol
          MaxRest        \* bound on what follows the protocol

Piece == {":", "/"} \cup Hosts \cup DOMAIN Numbers

ASSUME AddressAssumption ==
  /\ Dotted \subseteq Hosts /\ (\A n \in DOMAIN Numbers : Numbers[n] \in Nat) /\ MaxRest \in Nat
  /\ Starts \in [DOMAIN Numbers -> (SUBSET Nat) \ {{}}]
  /\ DOMAIN Services \subseteq Protocols
  /\ {":", "/"} \cap (Hosts \cup DOMAIN Numbers) = {}
  /\ HTTP \cap (HTTPS \cup TCP \cup UDP) = {} /\ HTTPS \cap (TCP \cup UDP) = {}
  /\ TCP \cap UDP = {}

VARIABLES url,     \* the url of the last construction, <<>> when there is none
          asked,   \* the socket type the caller asked for
          address  \* the object, or Thrown

addressVars == <<url, asked, address>>

Thrown == [ok |-> FALSE]
Slashes == <<":", "/", "/">>

AddressInit == url = <<>> /\ asked = "unknown" /\ address = Thrown

\* find: the first position from which pat stands in s, 0 for npos.
Find(s, pat) ==
  LET at == {i \in 1 .. Len(s) - Len(pat) + 1 :
               SubSeq(s, i, i + Len(pat) - 1) = pat}
  IN  IF at = {} THEN 0 ELSE CHOOSE i \in at : \A j \in at : i <= j

Before(s, i) == SubSeq(s, 1, i - 1)
From(s, i) == SubSeq(s, i, Len(s))

\* htons(atoi(s)): digits at the start, 0 without, sixteen bits of them.
HasNumber(s) == s # <<>> /\ Head(s) \in DOMAIN Numbers
Port(s) == IF HasNumber(s) THEN Numbers[Head(s)] % 65536 ELSE 0

\* inet_addr: a name that is no dotted address gives INADDR_NONE.
inet_addr(s) == IF Len(s) = 1 /\ Head(s) \in Dotted THEN Head(s) ELSE "none"

\* The socket type and the protocol type of a protocol.
Guess(p) ==
  CASE p \in HTTP  -> <<"tcp", "http">>
    [] p \in HTTPS -> <<"tcp", "https">>
    [] p \in TCP   -> <<"tcp", "unknown">>
    [] p \in UDP   -> <<"udp", "unknown">>
    [] OTHER       -> <<"unknown", "unknown">>

Types(protocol, type) ==
  IF type = "unknown" /\ protocol # <<>> THEN Guess(Head(protocol))
                                         ELSE <<type, "unknown">>

\* Fault: the port is taken for granted when there is a query.
HostEndBeforeQuery(s) == IF Find(s, <<"/">>) # 0 THEN 0 ELSE Find(s, <<":">>)
\* A ":" anywhere, in the query too, ends the host.
HostEnd(s) == Find(s, <<":">>)

\* Behind the ":" the port is cut to as many characters as stand before the "/".
\* That is all of it when the "/" comes after it, and its start, or nothing,
\* when the ":" is one of the query.
Ports(s) ==
  LET slash == Find(s, <<"/">>)
      rest  == From(s, HostEnd(s) + 1)
  IN  IF slash \notin 1 .. HostEnd(s) THEN {Port(rest)}
      ELSE IF slash > 1 /\ HasNumber(rest) THEN {n % 65536 : n \in Starts[Head(rest)]}
      ELSE {0}

\* The host, its port and the query, without a port for a failed lookup.
HostPort(protocol, s) ==
  LET slash == Find(s, <<"/">>)
      query == IF slash = 0 THEN <<>> ELSE From(s, slash)
  IN  IF HostEnd(s) # 0
      THEN {[host |-> Before(s, HostEnd(s)), port |-> n, query |-> query] : n \in Ports(s)}
      ELSE {[host |-> IF slash = 0 THEN s ELSE Before(s, slash),
             port |-> Services[n], query |-> query] :
               n \in {n \in DOMAIN Services : protocol = <<n>>}}

Parsed(s, type) ==
  LET end == Find(s, Slashes)
      protocol == Before(s, end)
  IN  {[ok |-> TRUE, protocol |-> protocol, host |-> part.host, port |-> part.port,
        query |-> part.query, addr |-> inet_addr(part.host),
        types |-> Types(protocol, type)] :
         part \in {part \in HostPort(protocol, From(s, end + 3)) : part.host # <<>>}}

DestroyAddress == /\ url # <<>>
                  /\ url' = <<>> /\ asked' = "unknown" /\ address' = Thrown

Text(s) == \A i \in 1 .. Len(s) - 1 : {s[i], s[i + 1]} \cap {":", "/"} # {}

Urls == LET rest == {s \in UNION {[1 .. n -> Piece] : n \in 0 .. MaxRest} : Text(s)}
            start == {<<p>> \o Slashes : p \in Protocols} \cup {Slashes}
        IN  {s \o t : s \in start, t \in rest} \cup {s \in rest : s # <<>>}

Construct(s, type) ==
  /\ url' = s /\ asked' = type
  /\ \/ Find(s, Slashes) # 0 /\ address' \in Parsed(s, type)
     \/ /\ Find(s, Slashes) = 0 \/ Parsed(s, type) = {}
        /\ address' = Thrown

ConstructAddress ==
  /\ url = <<>>
  /\ \E s \in Urls : \E type \in {"unknown", "tcp"} : Construct(s, type)

AddressNext == ConstructAddress \/ DestroyAddress

-------------------------------------------------------------------------------
(* A url with a host, with or without a port and a query, gives exactly    *)
(* the parts it was written from: a number above 65535 loses its upper     *)
(* bits, and a port that is left out is that of the service.  A ":" in the *)
(* query of a url without a port is taken for the end of the host, though: *)
(* then the host goes on into the query, has no address, and the port is   *)
(* the number behind that ":", or its first digits, or 0.                  *)
(*                                                                         *)
(* There is no object exactly when "://" is missing, when nothing or a ":" *)
(* follows it, or when there is no ":" behind it and the host is empty or  *)
(* the protocol no service.  So an empty protocol gives an object, and so  *)
(* does a "/" in the place of the host, with a ":" somewhere behind it.    *)
Expect(p, h, n, q) ==
  /\ address.ok
  /\ address.protocol = <<p>> /\ address.host = <<h>>
  /\ address.port = n /\ address.query = q
  /\ address.addr = IF h \in Dotted THEN h ELSE "none"
  /\ address.types[1] = IF asked = "tcp" \/ p \in TCP \cup HTTP \cup HTTPS THEN "tcp"
                        ELSE IF p \in UDP THEN "udp" ELSE "unknown"

StartOfNumber(s, port) == IF HasNumber(s) THEN \E n \in Starts[Head(s)] : port = n % 65536
                                          ELSE port = 0

HostInQuery(p, h, rest, colon) ==
  /\ address.ok
  /\ address.protocol = <<p>> /\ address.host = <<h>> \o Before(rest, colon)
  /\ address.query = rest /\ address.addr = "none"
  /\ StartOfNumber(From(rest, colon + 1), address.port)

ParsesHost(p, h, rest) ==
  /\ \A n \in DOMAIN Numbers : \A q \in {From(rest, 3)} :
       rest = <<":", n>> \o q /\ (q = <<>> \/ Head(q) = "/")
         => Expect(p, h, Numbers[n] % 65536, q)
  /\ (rest = <<>> \/ Head(rest) = "/") /\ Find(rest, <<":">>) = 0
       => IF p \in DOMAIN Services THEN Expect(p, h, Services[p], rest)
                                   ELSE address = Thrown
  /\ rest # <<>> /\ Head(rest) = "/" /\ Find(rest, <<":">>) # 0
       => HostInQuery(p, h, rest, Find(rest, <<":">>))

HasHost(protocol, rest) ==
  /\ rest # <<>> /\ Head(rest) # ":"
  /\ \/ Find(rest, <<":">>) # 0
     \/ Head(rest) # "/" /\ \E n \in DOMAIN Services : protocol = <<n>>

ParsesUrl ==
  /\ \A p \in Protocols : \A h \in Hosts :
       LET start == <<p>> \o Slashes \o <<h>>
           rest == From(url, Len(start) + 1)
       IN  url = start \o rest => ParsesHost(p, h, rest)
  /\ LET end == Find(url, Slashes)
     IN  IF end # 0 /\ HasHost(Before(url, end), From(url, end + 3))
         THEN address.ok ELSE address = Thrown
===============================================================================
