------------------------------ MODULE RedirectUris ------------------------------
(***************************************************************************)
(* bridge-oauth-registration-uri/v1 (validate-terminal-dependencies.py):   *)
(* the redirect URIs of a client are brought to a normal form, of which a  *)
(* digest is approved; the resource URIs of assertions must be in one.     *)
(* What is approved must lead where the client asked for, and be written   *)
(* in one way only.                                                        *)
(*                                                                         *)
(* A client writes a URI token by token, or offers whole ones.  A token is *)
(* a character, an escape such as "%2E", "%" for an escape that is cut     *)
(* off, "bad" for what is no printable ASCII, a backslash or "#".  A path  *)
(* is the sequence of its segments: "/" has one, which is empty.           *)
(***************************************************************************)
EXTENDS Naturals, Sequences, FiniteSets, SequencesExt

CONSTANTS
  Authorities,        \* [host, canon, port, ip, loopback]: canon is what the host is
                      \* canonically, "none" if it is no host
  Tokens,             \* the tokens that a client may write
  MaxPath, MaxQuery,  \* bounds on the tokens of a path and of a query
  Offers,             \* URIs that are offered in a list
  MaxList             \* bound on the list

VARIABLES
  uri,   \* [scheme, authority, path, query]: the one that is written
  list,  \* redirect_uris
  admit  \* admit_nondefault_redirect_port

vars == <<uri, list, admit>>

NoQuery == <<"none">>
Root    == <<<<>>>>

-----------------------------------------------------------------------------
(* Components *)

\* What an escape stands for: a character, or a byte of UTF-8, which is the first
\* of two (C2) or the second of a sign (A9) or of a soft hyphen (AD).
Byte(t) ==
  CASE t \in {"%2E", "%2e"} -> "."
    [] t = "%45" -> "E"
    [] t = "%2F" -> "/"
    [] t = "%20" -> " "
    [] t = "%21" -> "!"
    [] t = "%25" -> "%"
    [] t = "%C2" -> "C2"
    [] t = "%A9" -> "A9"
    [] t = "%AD" -> "AD"
    [] OTHER     -> t
Decoded(s) == [n \in DOMAIN s |-> Byte(s[n])]

Escape(t)     == Byte(t) # t
SmallDigits   == {"%2e"}
Unreserved    == {"E", "2", "."}
NeedsNoEscape == Unreserved \cup {"/", " "}   \* encoded_byte_forbidden

\* The bytes are strict UTF-8, and no invisible sign is among them.
Readable(s) ==
  \A n \in DOMAIN s : /\ s[n] = "C2" => n < Len(s) /\ s[n + 1] = "A9"
                      /\ s[n] = "A9" => n > 1 /\ s[n - 1] = "C2"
                      /\ s[n] # "AD"

\* normalize_component changes nothing, or refuses.
Component(s) ==
  /\ \A t \in ToSet(s) : /\ t \notin {"%", "bad"} \cup SmallDigits
                         /\ Escape(t) => Byte(t) \notin NeedsNoEscape
  /\ Readable(Decoded(s))
Components(path) == \A segment \in ToSet(path) : Component(segment)

Dots == {<<".">>, <<".", ".">>}
DotSegment(segment) == [n \in DOMAIN segment |-> IF segment[n] \in {"%2E", "%2e"} THEN "." ELSE segment[n]] \in Dots

\* path_normalization_forbidden
Tidy(path) ==
  /\ \A n \in 1 .. Len(path) - 1 : path[n] # <<>>
  /\ \A segment \in ToSet(path) : ~DotSegment(segment)

-----------------------------------------------------------------------------
(* URIs *)

Default(u) == (u.scheme = "https" /\ u.authority.port = "443") \/ (u.scheme = "http" /\ u.authority.port = "80")

\* canonical_host, parse_port: userinfo, other names than in small letters,
\* addresses not in canonical text are refused.
Host(u) == u.authority.host = u.authority.canon /\ u.authority.port # "bad" /\ ~Default(u)

Normal(u) == [u EXCEPT !.path = IF @ = <<>> THEN Root ELSE @]

\* A default port may be there.
Accepted_Ports(u, admitted) ==
  /\ u.scheme \in {"https", "http"}
  /\ u.authority.host = u.authority.canon /\ u.authority.port # "bad"
  /\ u.scheme = "http" => u.authority.loopback /\ u.authority.port # "none"
  /\ u.authority.port # "none" => u.authority.loopback \/ admitted \/ Default(u)
  /\ Tidy(Normal(u).path) /\ Components(Normal(u).path)
  /\ u.query # NoQuery => u.query # <<>> /\ Component(u.query)

\* normalize_uri; that its result is normalized to itself is checked there too.
Accepted(u, admitted) ==
  /\ u.scheme \in {"https", "http"}
  /\ Host(u)
  /\ u.scheme = "http" => u.authority.loopback /\ u.authority.port # "none"
  /\ u.authority.port # "none" => u.authority.loopback \/ admitted
  /\ Tidy(Normal(u).path) /\ Components(Normal(u).path)
  /\ u.query # NoQuery => u.query # <<>> /\ Component(u.query)

\* Two URIs of one normal form are both taken.
Registered_Merged(uris) == IF \A u \in ToSet(uris) : Accepted(u, admit) THEN {Normal(u) : u \in ToSet(uris)} ELSE {}

\* normalize_redirects: {} if it refuses the list, because of one of them or of
\* two different ones with the same normal form.
Registered(uris) ==
  IF /\ \A u \in ToSet(uris) : Accepted(u, admit)
     /\ \A u, v \in ToSet(uris) : Normal(u) = Normal(v) => u = v
  THEN {Normal(u) : u \in ToSet(uris)} ELSE {}

\* canonical_ppa_resource_uri: https, a name, no port, a path, no query, and only
\* characters of RFC 3986 in it.  The mutant takes an address.
Resource_Any(u) ==
  /\ u.scheme = "https" /\ u.authority.port = "none" /\ u.authority.host # ""
  /\ u.path \notin {<<>>, Root} /\ u.query = NoQuery
  /\ "|" \notin UNION {ToSet(s) : s \in ToSet(u.path)} /\ Tidy(u.path) /\ Components(u.path)
Resource(u) ==
  /\ u.scheme = "https" /\ Host(u) /\ u.authority.port = "none" /\ ~u.authority.ip
  /\ u.path \notin {<<>>, Root} /\ u.query = NoQuery
  /\ "|" \notin UNION {ToSet(s) : s \in ToSet(u.path)} /\ Tidy(u.path) /\ Components(u.path)

-----------------------------------------------------------------------------
Init ==
  /\ \E s \in {"https", "http", "HTTPS"}, a \in Authorities :
       uri = [scheme |-> s, authority |-> a, path |-> <<>>, query |-> NoQuery]
  /\ list = <<>>
  /\ admit \in BOOLEAN

\* A path begins with a slash and ends where a query begins.
WritePath(t) ==
  /\ uri.query = NoQuery
  /\ \/ t = "/" /\ uri' = [uri EXCEPT !.path = Append(@, <<>>)]
     \/ t # "/" /\ uri.path # <<>> /\ uri' = [uri EXCEPT !.path[Len(uri.path)] = Append(@, t)]

WriteQuery(t) ==
  /\ uri.path \in {<<>>, Root}
  /\ \/ uri.query = NoQuery /\ uri' = [uri EXCEPT !.query = <<>>]
     \/ uri.query # NoQuery /\ Len(uri.query) < MaxQuery /\ uri' = [uri EXCEPT !.query = Append(@, t)]

Size(path) == Len(path) + Cardinality(UNION {{n} \X DOMAIN path[n] : n \in DOMAIN path})

Write ==
  /\ list = <<>>
  /\ \/ Size(uri.path) < MaxPath /\ \E t \in Tokens : WritePath(t)
     \/ \E t \in Tokens : WriteQuery(t)
  /\ UNCHANGED <<list, admit>>

Offer(u) ==
  /\ uri.path = <<>> /\ uri.query = NoQuery
  /\ Len(list) < MaxList
  /\ list' = Append(list, u)
  /\ UNCHANGED <<uri, admit>>

Next == Write \/ (\E u \in Offers : Offer(u))

Spec == Init /\ [][Next]_vars

-----------------------------------------------------------------------------
(* What RFC 3986 (6.2.2, 6.2.3) has URIs of one place normalized to *)

Capital(t) == IF t = "%2e" THEN "%2E" ELSE t
Reduced(s) == [n \in DOMAIN s |-> IF Byte(s[n]) \in Unreserved THEN Byte(s[n]) ELSE Capital(s[n])]

\* A segment is taken out by the first ".." after it that no other segment is left for.
TakenOut(path, n) ==
  \E m \in n + 1 .. Len(path) :
    Cardinality({i \in n + 1 .. m : path[i] \notin Dots}) < Cardinality({i \in n + 1 .. m : path[i] = <<".", ".">>})

NoDots(path) ==
  LET left   == {n \in DOMAIN path : path[n] \notin Dots /\ ~TakenOut(path, n)}
      nth(k) == CHOOSE n \in left : Cardinality({m \in left : m <= n}) = k
      kept   == [k \in 1 .. Cardinality(left) |-> path[nth(k)]]
  IN IF path[Len(path)] \in Dots THEN Append(kept, <<>>) ELSE kept

Place(u) ==
  LET path == IF u.path = <<>> THEN Root ELSE u.path IN
  [scheme |-> IF u.scheme = "HTTPS" THEN "https" ELSE u.scheme,
   host   |-> u.authority.canon,
   port   |-> IF Default(u) THEN "none" ELSE u.authority.port,
   path   |-> NoDots([n \in DOMAIN path |-> Reduced(path[n])]),
   query  |-> IF u.query = NoQuery THEN NoQuery ELSE Reduced(u.query)]

\* The URI as it is, in the same parts.
Parts(u) == [scheme |-> u.scheme, host |-> u.authority.host, port |-> u.authority.port,
             path |-> u.path, query |-> u.query]

\* An accepted URI has a normal form that leads to its place, that RFC 3986 has
\* for it, and that is accepted and stays itself; who decodes it once finds the
\* same segments in it, none of them a dot segment.  A resource URI is such a
\* normal form.  A list that is accepted names every place in one way.
NormalFormSound ==
  /\ Accepted(uri, admit) =>
       LET n == Normal(uri) IN
       /\ Parts(n) = Place(uri)
       /\ Accepted(n, admit) /\ Normal(n) = n
       /\ \A segment \in ToSet(n.path) : "/" \notin ToSet(Decoded(segment)) /\ Decoded(segment) \notin Dots
  /\ Resource(uri) => Accepted(uri, FALSE) /\ Normal(uri) = uri
  /\ Registered(list) # {} => \A u, v \in ToSet(list) : Place(u) = Place(v) => u = v
=============================================================================
