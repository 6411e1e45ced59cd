------------------------------ MODULE UrlTools ------------------------------
(***************************************************************************)
(* The url functions of http_tools.  A url is a sequence of tokens: "://", *)
(* ":", "/", "?", "#" and words (a scheme, a host, a number, a name).      *)
(* "://" stands behind a scheme or somewhere in the parameters; its colon  *)
(* is one that find(':') may meet.                                         *)
(***************************************************************************)
EXTENDS Integers, Sequences, FiniteSetsExt

CONSTANTS
  Word,   \* schemes, hosts, numbers, names
  Number  \* the words that are written with digits only

Separator == {"://", ":", "/", "?", "#"}

Token == Word \cup Separator

ASSUME WordAssumption ==
  /\ Word \cap Separator = {} /\ {"http", "nowaytobeexistpage301.html"} \subseteq Word
  /\ Number \subseteq Word /\ {"21", "22", "80", "443"} \subseteq Number

\* The first place of an element of S, or 0.  (SequencesExt has such an operator; with that
\* module in scope every step of a proof takes several times as long.)
Find(url, S) ==
  LET I == {i \in 1 .. Len(url) : url[i] \in S} IN IF I # {} THEN Min(I) ELSE 0

Before(url, S) == LET k == Find(url, S) IN IF k = 0 THEN url ELSE SubSeq(url, 1, k - 1)
From(url, S)   == LET k == Find(url, S) IN IF k = 0 THEN <<>> ELSE SubSeq(url, k, Len(url))

\* The url behind "://", and the url up to it.
AfterScheme(url) == SubSeq(url, Find(url, {"://"}) + 1, Len(url))
Scheme(url)      == SubSeq(url, 1, Find(url, {"://"}))

tolower(word) == CASE word = "HTTP" -> "http" [] word = "HTTPS" -> "https" [] OTHER -> word

is_ssl(protocal) == Len(protocal) = 1 /\ tolower(protocal[1]) = "https"

get_port_by_protocal(protocal) ==
  LET is(word) == Len(protocal) = 1 /\ tolower(protocal[1]) = word
  IN  CASE is("ftp") -> "21" [] is("ssh") -> "22" [] is("https") -> "443" [] OTHER -> "80"

\* Plausible bug: the path is cut off before the parameters.
get_url_info_path_first(url) ==
  LET protocal == IF Find(url, {"://"}) = 0 THEN <<"http">> ELSE Before(url, {"://"})
      site     == Before(AfterScheme(url), {"/"})
      path     == From(AfterScheme(url), {"/"})
      host     == Before(site, {"?", "#"})
  IN  [protocal |-> protocal, domain |-> Before(host, {":"}),
       port     |-> IF Find(host, {":"}) = 0 THEN <<":", get_port_by_protocal(protocal)>>
                    ELSE From(host, {":"}),
       path     |-> IF path = <<>> THEN <<"/">> ELSE Before(path, {"?", "#"}),
       params   |-> From(path, {"?", "#"})]

get_url_info(url) ==
  LET protocal == IF Find(url, {"://"}) = 0 THEN <<"http">> ELSE Before(url, {"://"})
      noparams == Before(AfterScheme(url), {"?", "#"})
      site     == Before(noparams, {"/"})
      path     == From(noparams, {"/"})
  IN  [protocal |-> protocal, domain |-> Before(site, {":"}),
       port     |-> IF Find(site, {":"}) = 0 THEN <<":", get_port_by_protocal(protocal)>>
                    ELSE From(site, {":"}),
       path     |-> IF path = <<>> THEN <<"/">> ELSE path,
       params   |-> From(AfterScheme(url), {"?", "#"})]

format_url(url) ==
  LET i == get_url_info(url)
  IN  IF url = <<>> THEN <<>>
      ELSE i.protocal \o <<"://">> \o i.domain \o i.port \o i.path \o i.params

\* Plausible bug: the port is left on the domain.
get_domain_with_port(url) == Before(AfterScheme(url), {"/", "?", "#"})

get_domain(url) == Before(AfterScheme(url), {":", "/", "?", "#"})

\* Plausible bug: the first colon is taken for that of the port.
get_port_first_colon(url) ==
  LET k == Find(url, {":", "://"})
  IN  IF k = 0 THEN "80"
      ELSE IF k < Len(url) /\ url[k + 1] \in Number THEN url[k + 1] ELSE ""

\* "" when no digit follows the colon, as behind that of a second "://".
get_port(url) ==
  LET rest   == From(url, {":", "://"})
      behind == IF rest # <<>> /\ Head(rest) = "://" THEN From(Tail(rest), {":", "://"})
                ELSE rest
  IN  CASE behind = <<>> -> IF rest # <<>> /\ is_ssl(Before(url, {"://"})) THEN "443" ELSE "80"
        [] Len(behind) > 1 /\ behind[1] = ":" /\ behind[2] \in Number -> behind[2]
        [] OTHER -> ""

\* The site of a url, to which the links of a page are added.
get_page(url) ==
  IF Find(AfterScheme(url), {"/", "?", "#"}) = 0 THEN url
  ELSE Scheme(url) \o Before(AfterScheme(url), {"/", "?", "#"}) \o <<"/">>

\* The host that get_package names in the request.
Host(url) == get_url_info(url).domain \o get_url_info(url).port

make_err_url(url) ==
  LET i == get_url_info(url)
  IN  IF url = <<>> THEN <<>>
      ELSE i.protocal \o <<"://">> \o i.domain \o i.port \o <<"/", "nowaytobeexistpage301.html">>
=============================================================================
