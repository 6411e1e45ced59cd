--------------------------- MODULE TaskListProofs ---------------------------
(***************************************************************************)
(* Proofs about the urls that the tasks are started with, and about the    *)
(* list of the tasks, for any number of tasks and any urls.                *)
(***************************************************************************)
EXTENDS TaskList, SequenceTheorems, WellFoundedInduction, TLAPS

\* Min, as Find uses it, is the least element of a set of naturals.
LEMMA MinIsLeast ==
  ASSUME NEW K, K \subseteq Nat, K # {}
  PROVE  Min(K) \in K /\ \A y \in K : Min(K) <= y
<1>1. PICK x \in K : \A y \in K : ~(<<y, x>> \in OpToRel(<, Nat))
  BY NatLessThanWellFounded, WFMin, Zenon
<1>2. ASSUME NEW y \in K PROVE x <= y
  <2>1. <<y, x>> \in Nat \X Nat /\ <<y, x>>[1] = y /\ <<y, x>>[2] = x
    OBVIOUS
  <2>2. ~(y < x)
    BY <1>1, <2>1, Zenon DEF OpToRel
  <2> QED
    BY <2>2
<1> QED
  BY <1>2, Zenon DEF Min

\* Find answers the first place of a token of S, or 0.
LEMMA FindIs ==
  ASSUME NEW url \in Seq(Token), NEW S
  PROVE  /\ Find(url, S) \in 0 .. Len(url)
         /\ Find(url, S) = 0 => \A i \in 1 .. Len(url) : url[i] \notin S
         /\ Find(url, S) # 0 => url[Find(url, S)] \in S
         /\ \A i \in 1 .. Find(url, S) - 1 : url[i] \notin S
<1> DEFINE I == {i \in 1 .. Len(url) : url[i] \in S}
<1>1. Find(url, S) = IF I # {} THEN Min(I) ELSE 0
  BY Zenon DEF Find
<1>2. CASE I = {}
  BY <1>1, <1>2
<1>3. CASE I # {}
  <2>1. I \subseteq Nat
    OBVIOUS
  <2>2. Min(I) \in I /\ \A y \in I : Min(I) <= y
    <3> HIDE DEF I
    <3> QED
      BY <1>3, <2>1, MinIsLeast, Zenon
  <2>3. PICK k : k = Min(I)
    BY Zenon
  <2>4. k \in 1 .. Len(url) /\ url[k] \in S /\ \A y \in 1 .. Len(url) : url[y] \in S => k <= y
    BY <2>2, <2>3, Zenon
  <2>5. Find(url, S) = k
    BY <1>1, <1>3, <2>3, Zenon
  <2> QED
    BY <2>4, <2>5
<1> QED
  BY <1>2, <1>3, Zenon

LEMMA FindAt ==
  ASSUME NEW url \in Seq(Token), NEW S, NEW k \in 1 .. Len(url),
         url[k] \in S, \A i \in 1 .. k - 1 : url[i] \notin S
  PROVE  Find(url, S) = k
BY FindIs

\* A url of two parts, where the second begins with the first token of S, is cut there.
LEMMA Cut ==
  ASSUME NEW a \in Seq(Token), NEW b \in Seq(Token), NEW S,
         \A i \in 1 .. Len(a) : a[i] \notin S,
         b # <<>> => b[1] \in S
  PROVE  /\ Find(a \o b, S) = IF b = <<>> THEN 0 ELSE Len(a) + 1
         /\ Before(a \o b, S) = a
         /\ From(a \o b, S) = b
<1>1. /\ a \o b \in Seq(Token) /\ Len(a \o b) = Len(a) + Len(b)
      /\ \A i \in 1 .. Len(a) : (a \o b)[i] = a[i]
      /\ \A i \in 1 .. Len(b) : (a \o b)[Len(a) + i] = b[i]
  OBVIOUS
<1>2. CASE b = <<>>
  <2>1. a \o b = a
    BY <1>2, ConcatEmptySeq, Zenon
  <2>2. Find(a, S) = 0
    BY FindIs
  <2> QED
    BY <1>2, <2>1, <2>2, Zenon DEF Before, From
<1>3. CASE b # <<>>
  <2>1. Find(a \o b, S) = Len(a) + 1
    <3>1. Len(a) \in Nat /\ Len(b) \in Nat /\ Len(b) > 0
      BY <1>3
    <3>2. Len(a) + 1 \in 1 .. Len(a \o b) /\ (a \o b)[Len(a) + 1] \in S
      BY <1>1, <1>3, <3>1
    <3>3. \A i \in 1 .. (Len(a) + 1) - 1 : (a \o b)[i] \notin S
      BY <1>1, <3>1
    <3> QED
      BY <1>1, <3>2, <3>3, FindAt, Zenon
  <2>2. SubSeq(a \o b, 1, Len(a)) = a
    BY <1>1
  <2>3. SubSeq(a \o b, Len(a) + 1, Len(a) + Len(b)) = b
    BY <1>1
  <2>4. Len(a) + 1 # 0 /\ (Len(a) + 1) - 1 = Len(a)
    BY LenProperties
  <2>5. Before(a \o b, S) = a
    BY <2>1, <2>2, <2>4, Zenon DEF Before
  <2>6. From(a \o b, S) = b
    BY <1>1, <2>1, <2>3, <2>4, Zenon DEF From
  <2> QED
    BY <1>3, <2>1, <2>5, <2>6, Zenon
<1> QED
  BY <1>2, <1>3, Zenon

LEMMA SeqWithout ==
  ASSUME NEW a, NEW S, NEW T, a \in Seq(Token \ T), S \subseteq T
  PROVE  a \in Seq(Token \ S) /\ a \in Seq(Token) /\ \A i \in 1 .. Len(a) : a[i] \notin S
<1>1. Token \ T \subseteq Token \ S /\ Token \ T \subseteq Token
  OBVIOUS
<1>2. a \in Seq(Token \ S) /\ a \in Seq(Token)
  BY <1>1, SeqMonotonic, Zenon
<1> QED
  BY <1>2, ElementOfSeq

LEMMA WordsOnly ==
  ASSUME NEW a \in Seq(Word), NEW S, S \subseteq Separator
  PROVE  a \in Seq(Token \ S) /\ a \in Seq(Token)
<1>1. Word \subseteq Token \ S /\ Word \subseteq Token
  BY WordAssumption, Zenon DEF Token
<1> QED
  BY <1>1, SeqMonotonic, Zenon

LEMMA Separators ==
  /\ {"/", "?", "#"} \subseteq Separator /\ {"?", "#"} \subseteq Separator
  /\ {"/"} \subseteq Separator /\ {":"} \subseteq Separator /\ {"://"} \subseteq Separator
  /\ {":", "/", "?", "#"} \subseteq Separator /\ Separator \subseteq Token
BY Zenon DEF Separator, Token

LEMMA CutAt ==
  ASSUME NEW S, NEW a \in Seq(Token \ S), NEW b \in Seq(Token), b # <<>> => b[1] \in S
  PROVE  /\ Find(a \o b, S) = IF b = <<>> THEN 0 ELSE Len(a) + 1
         /\ Before(a \o b, S) = a
         /\ From(a \o b, S) = b
<1>1. a \in Seq(Token) /\ \A i \in 1 .. Len(a) : a[i] \notin S
  BY SeqWithout, Zenon
<1> QED
  BY <1>1, Cut, Zenon

Associates(a, b, c) == (a \o b) \o c = a \o (b \o c)

LEMMA ConcatAssociates ==
  ASSUME NEW a \in Seq(Token), NEW b \in Seq(Token), NEW c \in Seq(Token)
  PROVE  Associates(a, b, c) /\ a \o b \in Seq(Token)
<1>1. (a \o b) \o c = a \o (b \o c)
  BY ConcatAssociative
<1>2. a \o b \in Seq(Token)
  BY ConcatProperties, Zenon
<1> QED
  BY <1>1, <1>2, Zenon DEF Associates

Regroups(a, b, c, d) ==
  /\ a \o b \o c \o d = (a \o b) \o (c \o d)
  /\ a \o b \o c \o d = a \o (b \o (c \o d))

LEMMA ConcatFour ==
  ASSUME NEW a \in Seq(Token), NEW b \in Seq(Token),
         NEW c \in Seq(Token), NEW d \in Seq(Token)
  PROVE  Regroups(a, b, c, d)
<1>1. Associates(a \o b, c, d) /\ Associates(a, b, c \o d)
  BY ConcatAssociates, Zenon
<1> QED
  BY <1>1, Zenon DEF Associates, Regroups

LEMMA Begins ==
  ASSUME NEW a \in Seq(Token), NEW b \in Seq(Token), NEW S,
         a # <<>> => a[1] \in S, b # <<>> => b[1] \in S
  PROVE  a \o b # <<>> => (a \o b)[1] \in S
<1>1. CASE a = <<>>
  BY <1>1, ConcatEmptySeq, Zenon
<1>2. CASE a # <<>>
  BY <1>2
<1> QED
  BY <1>1, <1>2, Zenon

\* What the text behind "://" is put together from, and what the functions find in it.
AreParts(host, port, path, params) ==
  /\ host \in Seq(Word)
  /\ port \in Seq(Token \ {"/", "?", "#"}) /\ (port # <<>> => port[1] = ":")
  /\ path \in Seq(Token \ {"?", "#"}) /\ (path # <<>> => path[1] = "/")
  /\ params \in Seq(Token) /\ (params # <<>> => params[1] \in {"?", "#"})

Splits(rest, host, port, path, params) ==
  /\ rest \in Seq(Token)
  /\ Before(rest, {"?", "#"}) = host \o port \o path
  /\ From(rest, {"?", "#"}) = params
  /\ Before(host \o port \o path, {"/"}) = host \o port
  /\ From(host \o port \o path, {"/"}) = path
  /\ Before(host \o port, {":"}) = host
  /\ From(host \o port, {":"}) = port
  /\ Find(host \o port, {":"}) = 0 <=> port = <<>>
  /\ Before(rest, {":", "/", "?", "#"}) = host
  /\ Before(rest, {"/", "?", "#"}) = host \o port
  /\ Find(rest, {"/", "?", "#"}) = 0 <=> path \o params = <<>>

\* The text behind "://" of a url is parsed into the parts it was put together from.
LEMMA SiteParts ==
  ASSUME NEW host, NEW port, NEW path, NEW params, AreParts(host, port, path, params)
  PROVE  Splits(host \o port \o path \o params, host, port, path, params)
<1> SUFFICES ASSUME host \in Seq(Word),
                    port \in Seq(Token \ {"/", "?", "#"}), port # <<>> => port[1] = ":",
                    path \in Seq(Token \ {"?", "#"}), path # <<>> => path[1] = "/",
                    params \in Seq(Token), params # <<>> => params[1] \in {"?", "#"}
             PROVE  Splits(host \o port \o path \o params, host, port, path, params)
  BY Zenon DEF AreParts
<1>1. /\ host \in Seq(Token) /\ port \in Seq(Token) /\ path \in Seq(Token)
      /\ host \in Seq(Token \ {"/", "?", "#"}) /\ host \in Seq(Token \ {"?", "#"})
      /\ host \in Seq(Token \ {"/"}) /\ port \in Seq(Token \ {"?", "#"})
      /\ port \in Seq(Token \ {"/"})
  <2>1. /\ host \in Seq(Token) /\ host \in Seq(Token \ {"/", "?", "#"})
        /\ host \in Seq(Token \ {"?", "#"}) /\ host \in Seq(Token \ {"/"})
    BY WordsOnly, Separators, Zenon
  <2>2. path \in Seq(Token)
    BY SeqWithout, Zenon
  <2>3. {"?", "#"} \subseteq {"/", "?", "#"} /\ {"/"} \subseteq {"/", "?", "#"}
    OBVIOUS
  <2>4. /\ port \in Seq(Token) /\ port \in Seq(Token \ {"?", "#"})
        /\ port \in Seq(Token \ {"/"})
    BY <2>3, SeqWithout
  <2> QED
    BY <2>1, <2>2, <2>4, Zenon
<1>2. /\ host \o port \in Seq(Token \ {"/", "?", "#"}) /\ host \o port \in Seq(Token)
      /\ host \o port \in Seq(Token \ {"/"})
      /\ host \o port \o path \in Seq(Token \ {"?", "#"})
      /\ host \o port \o path \in Seq(Token)
      /\ path \o params \in Seq(Token) /\ port \o (path \o params) \in Seq(Token)
  BY <1>1, ConcatProperties, Zenon
<1>3. /\ host \o port \o path \o params = (host \o port) \o (path \o params)
      /\ host \o port \o path \o params = host \o (port \o (path \o params))
  <2>1. Regroups(host, port, path, params)
    BY <1>1, ConcatFour, Zenon
  <2> QED
    BY <2>1, Zenon DEF Regroups
<1>4. /\ Before(host \o port \o path \o params, {"?", "#"}) = host \o port \o path
      /\ From(host \o port \o path \o params, {"?", "#"}) = params
  <2> DEFINE a == host \o port \o path
  <2>1. a \in Seq(Token \ {"?", "#"})
    BY <1>2, Zenon
  <2> HIDE DEF a
  <2>2. Before(a \o params, {"?", "#"}) = a /\ From(a \o params, {"?", "#"}) = params
    BY <2>1, CutAt, Zenon
  <2> QED
    BY <2>2, Zenon DEF a
<1>5. /\ Before(host \o port \o path, {"/"}) = host \o port
      /\ From(host \o port \o path, {"/"}) = path
  <2>1. path # <<>> => path[1] \in {"/"}
    OBVIOUS
  <2> QED
    BY <1>1, <1>2, <2>1, CutAt, ZenonT(30)
<1>6. /\ Before(host \o port, {":"}) = host /\ From(host \o port, {":"}) = port
      /\ Find(host \o port, {":"}) = 0 <=> port = <<>>
  <2>1. host \in Seq(Token \ {":"})
    BY WordsOnly, Separators, Zenon
  <2>2. port # <<>> => port[1] \in {":"}
    OBVIOUS
  <2>3. Find(host \o port, {":"}) = IF port = <<>> THEN 0 ELSE Len(host) + 1
    BY <1>1, <2>1, <2>2, CutAt, Zenon
  <2>4. Len(host) + 1 # 0
    BY <1>1
  <2> QED
    BY <1>1, <2>1, <2>2, <2>3, <2>4, CutAt, Zenon
<1>7. path \o params # <<>> => (path \o params)[1] \in {"/", "?", "#"}
  BY <1>1, Begins
<1>8. /\ Before(host \o port \o path \o params, {"/", "?", "#"}) = host \o port
      /\ Find(host \o port \o path \o params, {"/", "?", "#"}) = 0 <=> path \o params = <<>>
  <2>1. Len(host \o port) + 1 # 0
    BY <1>2
  <2> DEFINE a == host \o port
             b == path \o params
  <2>2. /\ a \in Seq(Token \ {"/", "?", "#"}) /\ b \in Seq(Token)
        /\ b # <<>> => b[1] \in {"/", "?", "#"}
    BY <1>2, <1>7, Zenon
  <2>3. /\ Before(a \o b, {"/", "?", "#"}) = a
        /\ Find(a \o b, {"/", "?", "#"}) = IF b = <<>> THEN 0 ELSE Len(a) + 1
    <3> HIDE DEF a, b
    <3> QED
      BY <2>2, CutAt, Zenon
  <2> QED
    BY <1>3, <2>1, <2>3, Zenon
<1>9. Before(host \o port \o path \o params, {":", "/", "?", "#"}) = host
  <2>1. port \o (path \o params) # <<>> =>
          (port \o (path \o params))[1] \in {":", "/", "?", "#"}
    BY <1>1, <1>2, <1>7, Begins
  <2>2. host \in Seq(Token \ {":", "/", "?", "#"})
    BY WordsOnly, Separators, Zenon
  <2>3. Before(host \o (port \o (path \o params)), {":", "/", "?", "#"}) = host
    BY <1>2, <2>1, <2>2, CutAt, Zenon
  <2> QED
    BY <1>2, <1>3, <2>1, <2>2, <2>3, Zenon
<1> QED
  BY <1>2, <1>4, <1>5, <1>6, <1>8, <1>9, ConcatProperties, Zenon DEF Splits

LEMMA OneToken ==
  ASSUME NEW S, NEW x \in S
  PROVE  <<x>> \in Seq(S) /\ Len(<<x>>) = 1 /\ <<x>>[1] = x
OBVIOUS

LEMMA OneOnly ==
  ASSUME NEW S, NEW a \in Seq(S), a # <<>>, Len(a) <= 1
  PROVE  Len(a) = 1 /\ a[1] \in S
<1>1. Len(a) \in Nat \ {0}
  BY EmptySeq, Zenon
<1>2. Len(a) = 1 /\ 1 \in 1 .. Len(a)
  BY <1>1, SMTT(20)
<1> QED
  BY <1>2, ElementOfSeq, Zenon

LEMMA TwoOnly ==
  ASSUME NEW S, NEW a \in Seq(S), NEW b \in Seq(S), Len(a) = 1, Len(b) = 1
  PROVE  a \o b \in Seq(S) /\ Len(a \o b) = 2 /\ (a \o b)[1] = a[1] /\ (a \o b)[2] = b[1]
<1>1. PICK d : d = a \o b
  BY Zenon
<1>2. /\ d \in Seq(S) /\ Len(d) = Len(a) + Len(b)
      /\ \A i \in 1 .. Len(a) + Len(b) : d[i] = IF i <= Len(a) THEN a[i] ELSE b[i - Len(a)]
  BY <1>1, ConcatProperties, Zenon
<1>3. Len(d) = 2 /\ d[1] = a[1] /\ d[2] = b[1]
  BY <1>2
<1> QED
  BY <1>1, <1>2, <1>3, Zenon

LEMMA ConcatLengths ==
  ASSUME NEW a \in Seq(Token), NEW b \in Seq(Token)
  PROVE  /\ Len(a) \in Nat /\ Len(b) \in Nat /\ Len(a \o b) = Len(a) + Len(b)
         /\ Len(a) > 0 => a \o b # <<>> /\ (a \o b)[1] = a[1]
OBVIOUS

\* get_url_info and the others take the url behind the first "://", or all of it.
LEMMA SchemeCut ==
  ASSUME NEW a \in Seq(Token \ {"://"}), NEW rest \in Seq(Token)
  PROVE  LET url == (a \o <<"://">>) \o rest
         IN  /\ url \in Seq(Token)
             /\ Find(url, {"://"}) # 0
             /\ Before(url, {"://"}) = a
             /\ AfterScheme(url) = rest
             /\ Scheme(url) = a \o <<"://">>
<1> DEFINE c   == <<"://">>
           url == (a \o c) \o rest
<1>1. a \in Seq(Token) /\ c \in Seq(Token) /\ Len(c) = 1 /\ c[1] = "://"
  <2>1. a \in Seq(Token)
    BY SeqWithout, Zenon
  <2>2. "://" \in Token
    BY Zenon DEF Token, Separator
  <2> QED
    BY <2>1, <2>2, OneToken, Zenon
<1> HIDE DEF c
<1>2. /\ a \o c \in Seq(Token) /\ c \o rest \in Seq(Token) /\ url \in Seq(Token)
      /\ Associates(a, c, rest)
  BY <1>1, ConcatAssociates, Zenon
<1>3. c \o rest # <<>> /\ (c \o rest)[1] \in {"://"}
  <2>1. Len(c) > 0
    BY <1>1
  <2> QED
    BY <1>1, <2>1, ConcatLengths, Zenon
<1>4. /\ Find(a \o (c \o rest), {"://"}) = Len(a) + 1
      /\ Before(a \o (c \o rest), {"://"}) = a
  BY <1>2, <1>3, CutAt, Zenon
<1>5. url = a \o (c \o rest)
  BY <1>2, Zenon DEF Associates
<1>6. Find(url, {"://"}) = Len(a) + 1 /\ Before(url, {"://"}) = a
  BY <1>4, <1>5, Zenon
<1>7. Len(a) \in Nat /\ Len(a \o c) = Len(a) + 1
  BY <1>1, ConcatLengths, Zenon
<1>8. PICK ac \in Seq(Token) : ac = a \o c
  BY <1>2, Zenon
<1>9. SubSeq(ac \o rest, 1, Len(ac)) = ac
  OBVIOUS
<1>10. SubSeq(ac \o rest, Len(ac) + 1, Len(ac \o rest)) = rest
  <2>1. /\ ac \o rest \in Seq(Token) /\ Len(ac \o rest) = Len(ac) + Len(rest)
        /\ \A i \in 1 .. Len(rest) : (ac \o rest)[Len(ac) + i] = rest[i]
    OBVIOUS
  <2>2. SubSeq(ac \o rest, Len(ac) + 1, Len(ac) + Len(rest)) = rest
    BY <2>1
  <2> QED
    BY <2>1, <2>2, Zenon
<1>11. AfterScheme(url) = rest /\ Scheme(url) = a \o c
  BY <1>6, <1>7, <1>8, <1>9, <1>10, Zenon DEF AfterScheme, Scheme
<1>12. Len(a) + 1 # 0
  BY <1>7
<1> QED
  BY <1>2, <1>6, <1>11, <1>12, Zenon DEF c

LEMMA SchemeNone ==
  ASSUME NEW url \in Seq(Token \ {"://"})
  PROVE  Find(url, {"://"}) = 0 /\ AfterScheme(url) = url /\ url \in Seq(Token)
<1>1. url \in Seq(Token) /\ \A i \in 1 .. Len(url) : url[i] \notin {"://"}
  BY SeqWithout, Zenon
<1>2. Find(url, {"://"}) = 0
  BY <1>1, FindIs
<1>3. SubSeq(url, 0 + 1, Len(url)) = url
  BY <1>1
<1> QED
  BY <1>1, <1>2, <1>3, Zenon DEF AfterScheme

\* What get_url_info, get_domain and get_page say of a url whose rest splits into parts.
LEMMA InfoIs ==
  ASSUME NEW url, NEW host, NEW port, NEW path, NEW params,
         Splits(AfterScheme(url), host, port, path, params)
  PROVE  LET protocal == IF Find(url, {"://"}) = 0 THEN <<"http">> ELSE Before(url, {"://"})
         IN  /\ get_url_info(url) =
                  [protocal |-> protocal, domain |-> host,
                   port |-> IF port = <<>> THEN <<":", get_port_by_protocal(protocal)>>
                            ELSE port,
                   path |-> IF path = <<>> THEN <<"/">> ELSE path,
                   params |-> params]
             /\ get_domain(url) = host
             /\ path \o params # <<>> =>
                  get_page(url) = Scheme(url) \o (host \o port) \o <<"/">>
<1>1. get_domain(url) = host
  BY Zenon DEF Splits, get_domain
<1>2. path \o params # <<>> => get_page(url) = Scheme(url) \o (host \o port) \o <<"/">>
  BY Zenon DEF Splits, get_page
<1> QED
  BY <1>1, <1>2, Zenon DEF Splits, get_url_info

\* A url with all its parts, as format_url makes it.
Canonical(protocal, host, n, path, params) ==
  protocal \o <<"://">> \o host \o <<":", n>> \o path \o params

IsCanonical(protocal, host, n, path, params) ==
  /\ protocal \in Seq(Word) /\ host \in Seq(Word) /\ n \in Number
  /\ path \in Seq(Token \ {"?", "#"}) /\ path # <<>> /\ path[1] = "/"
  /\ params \in Seq(Token) /\ (params # <<>> => params[1] \in {"?", "#"})

FactorsFirst(x, a, b, c, d) ==
  /\ x \o a \o b \o c \o d = x \o (a \o b \o c \o d)
  /\ a \o b \o c \o d \in Seq(Token)

LEMMA FactorFirst ==
  ASSUME NEW x \in Seq(Token), NEW a \in Seq(Token), NEW b \in Seq(Token),
         NEW c \in Seq(Token), NEW d \in Seq(Token)
  PROVE  FactorsFirst(x, a, b, c, d)
<1>1. /\ a \o b \in Seq(Token) /\ a \o b \o c \in Seq(Token)
      /\ a \o b \o c \o d \in Seq(Token)
  BY ConcatAssociates, Zenon
<1>2. Associates(x, a, b) /\ Associates(x, a \o b, c) /\ Associates(x, a \o b \o c, d)
  BY <1>1, ConcatAssociates, Zenon
<1> QED
  BY <1>1, <1>2, Zenon DEF Associates, FactorsFirst

LEMMA PortToken ==
  ASSUME NEW n \in Number
  PROVE  /\ <<":", n>> \in Seq(Token \ {"/", "?", "#"}) /\ <<":", n>> \in Seq(Token)
         /\ <<":", n>> # <<>> /\ <<":", n>>[1] = ":" /\ <<":", n>>[2] = n /\ Len(<<":", n>>) = 2
<1>1. /\ ":" \in Token \ {"/", "?", "#"} /\ n \in Token \ {"/", "?", "#"}
      /\ ":" \in Token /\ n \in Token
  BY WordAssumption, Zenon DEF Token, Separator
<1>2. \A S, x, y : x \in S /\ y \in S => <<x, y>> \in Seq(S)
  OBVIOUS
<1>3. <<":", n>> # <<>> /\ <<":", n>>[1] = ":" /\ <<":", n>>[2] = n /\ Len(<<":", n>>) = 2
  OBVIOUS
<1> QED
  BY <1>1, <1>2, <1>3, Zenon

\* What is found in such a url.
Cuts(url, protocal, host, port, path, params) ==
  /\ url \in Seq(Token) /\ Find(url, {"://"}) # 0
  /\ Before(url, {"://"}) = protocal /\ Scheme(url) = protocal \o <<"://">>
  /\ url = (protocal \o <<"://">>) \o AfterScheme(url)
  /\ AfterScheme(url) = host \o port \o path \o params
  /\ Splits(AfterScheme(url), host, port, path, params)

\* Such a url is taken apart where it was put together.
LEMMA CanonicalSplits ==
  ASSUME NEW protocal, NEW host, NEW n, NEW path, NEW params,
         IsCanonical(protocal, host, n, path, params)
  PROVE  Cuts(Canonical(protocal, host, n, path, params), protocal, host, <<":", n>>, path, params)
<1> DEFINE rest == host \o <<":", n>> \o path \o params
<1>1. AreParts(host, <<":", n>>, path, params)
  BY PortToken, Zenon DEF IsCanonical, AreParts
<1>2. Splits(rest, host, <<":", n>>, path, params)
  BY <1>1, SiteParts, Zenon
<1>3. /\ protocal \in Seq(Token \ {"://"}) /\ protocal \in Seq(Token) /\ host \in Seq(Token)
      /\ <<":", n>> \in Seq(Token) /\ path \in Seq(Token) /\ params \in Seq(Token)
  <2>1. path \in Seq(Token)
    BY SeqWithout, Zenon DEF IsCanonical
  <2> QED
    BY <2>1, WordsOnly, Separators, PortToken, Zenon DEF IsCanonical
<1>4. protocal \o <<"://">> \in Seq(Token)
  <2>1. "://" \in Token
    BY Zenon DEF Token, Separator
  <2> QED
    BY <1>3, <2>1, OneToken, ConcatAssociates, Zenon
<1>5. Canonical(protocal, host, n, path, params) = (protocal \o <<"://">>) \o rest
  <2>1. FactorsFirst(protocal \o <<"://">>, host, <<":", n>>, path, params)
    BY <1>3, <1>4, FactorFirst, Zenon
  <2> QED
    BY <2>1, Zenon DEF FactorsFirst, Canonical
<1>6. rest \in Seq(Token)
  BY <1>2, Zenon DEF Splits
<1> DEFINE url == (protocal \o <<"://">>) \o rest
<1>7. /\ url \in Seq(Token) /\ Find(url, {"://"}) # 0 /\ Before(url, {"://"}) = protocal
      /\ AfterScheme(url) = rest /\ Scheme(url) = protocal \o <<"://">>
  <2> HIDE DEF rest
  <2> QED
    BY <1>3, <1>6, SchemeCut, Zenon
<1>8. AfterScheme(url) = host \o <<":", n>> \o path \o params
  BY <1>7, Zenon
<1>9. Splits(AfterScheme(url), host, <<":", n>>, path, params)
  <2> HIDE DEF rest, url
  <2> QED
    BY <1>2, <1>7, Zenon
<1>10. url = (protocal \o <<"://">>) \o AfterScheme(url)
  BY <1>7, Zenon
<1>11. Canonical(protocal, host, n, path, params) = url
  BY <1>5, Zenon
<1> HIDE DEF rest, url
<1> QED
  BY <1>7, <1>8, <1>9, <1>10, <1>11, Zenon DEF Cuts

\* What get_url_info, get_domain and get_page make of it.
HasParts(url, protocal, host, port, path, params) ==
  /\ get_url_info(url) = [protocal |-> protocal, domain |-> host, port |-> port,
                          path |-> path, params |-> params]
  /\ get_domain(url) = host
  /\ get_page(url) = (protocal \o <<"://">>) \o (host \o port) \o <<"/">>

LEMMA CutsInfo ==
  ASSUME NEW url, NEW protocal, NEW host, NEW port, NEW path, NEW params,
         Cuts(url, protocal, host, port, path, params),
         port # <<>>, path # <<>>, path \o params # <<>>
  PROVE  HasParts(url, protocal, host, port, path, params)
<1>1. get_domain(url) = host
  BY InfoIs, Zenon DEF Cuts
<1>2. get_page(url) = Scheme(url) \o (host \o port) \o <<"/">>
  BY Zenon DEF Cuts, Splits, get_page
<1>3. Scheme(url) = protocal \o <<"://">>
  BY Zenon DEF Cuts
<1>4. get_url_info(url) = [protocal |-> protocal, domain |-> host, port |-> port,
                           path |-> path, params |-> params]
  BY Zenon DEF Cuts, Splits, get_url_info
<1> QED
  BY <1>1, <1>2, <1>3, <1>4, Zenon DEF HasParts

\* What the url functions answer for it.
Reads(url, protocal, host, n, path, params) ==
  /\ HasParts(url, protocal, host, <<":", n>>, path, params)
  /\ url # <<>> /\ format_url(url) = url /\ Host(url) = host \o <<":", n>>
  /\ get_url_info(url).protocal = protocal /\ get_url_info(url).domain = host
  /\ get_url_info(url).port = <<":", n>>

LEMMA CanonicalInfo ==
  ASSUME NEW protocal, NEW host, NEW n, NEW path, NEW params,
         IsCanonical(protocal, host, n, path, params)
  PROVE  Reads(Canonical(protocal, host, n, path, params), protocal, host, n, path, params)
<1> DEFINE url == Canonical(protocal, host, n, path, params)
<1>1. Cuts(url, protocal, host, <<":", n>>, path, params)
  BY CanonicalSplits, Zenon
<1>2. <<":", n>> # <<>> /\ path # <<>> /\ path \o params # <<>>
  <2>1. <<":", n>> # <<>> /\ path # <<>>
    BY PortToken, Zenon DEF IsCanonical
  <2>2. path \in Seq(Token) /\ params \in Seq(Token)
    BY SeqWithout, Zenon DEF IsCanonical
  <2>3. path \o params # <<>>
    BY <2>1, <2>2
  <2> QED
    BY <2>1, <2>3, Zenon
<1>3. url # <<>>
  <2>1. url \in Seq(Token) /\ Find(url, {"://"}) # 0
    BY <1>1, Zenon DEF Cuts
  <2> HIDE DEF url
  <2> QED
    BY <2>1, FindIs
<1> HIDE DEF url
<1>4. HasParts(url, protocal, host, <<":", n>>, path, params)
  BY <1>1, <1>2, CutsInfo, Zenon
<1>5. /\ get_url_info(url).protocal = protocal /\ get_url_info(url).domain = host
      /\ get_url_info(url).port = <<":", n>> /\ get_url_info(url).path = path
      /\ get_url_info(url).params = params
  BY <1>4 DEF HasParts
<1>6. Host(url) = host \o <<":", n>>
  BY <1>5, Zenon DEF Host
<1>7. format_url(url) = protocal \o <<"://">> \o host \o <<":", n>> \o path \o params
  BY <1>3, <1>5, Zenon DEF format_url
<1>8. format_url(url) = url
  BY <1>7, Zenon DEF url, Canonical
<1>9. Reads(url, protocal, host, n, path, params)
  BY <1>3, <1>4, <1>5, <1>6, <1>8, Zenon DEF Reads
<1> QED
  BY <1>9, Zenon DEF url

LEMMA CanonicalPort ==
  ASSUME NEW protocal, NEW host, NEW n, NEW path, NEW params,
         IsCanonical(protocal, host, n, path, params)
  PROVE  get_port(Canonical(protocal, host, n, path, params)) = n
<1> DEFINE S    == {":", "://"}
           rest == host \o <<":", n>> \o path \o params
           tail == <<":", n>> \o (path \o params)
<1>1. /\ protocal \in Seq(Token \ S) /\ host \in Seq(Token \ S) /\ protocal \in Seq(Token)
      /\ host \in Seq(Token) /\ <<":", n>> \in Seq(Token) /\ n \in Number
      /\ path \in Seq(Token) /\ params \in Seq(Token) /\ path \o params \in Seq(Token)
  <2>1. S \subseteq Separator
    BY Zenon DEF Separator
  <2>2. path \in Seq(Token)
    BY SeqWithout, Zenon DEF IsCanonical
  <2> HIDE DEF S
  <2> QED
    BY <2>1, <2>2, WordsOnly, PortToken, ConcatAssociates, Zenon DEF IsCanonical
<1>2. tail \in Seq(Token) /\ Len(tail) > 1 /\ tail # <<>> /\ tail[1] = ":" /\ tail[2] = n
  <2>1. PICK p \in Seq(Token) : p = <<":", n>> /\ p[1] = ":" /\ p[2] = n /\ Len(p) = 2
    BY <1>1, PortToken, Zenon
  <2>2. PICK q \in Seq(Token) : q = path \o params
    BY <1>1, Zenon
  <2>3. /\ p \o q \in Seq(Token) /\ Len(p \o q) > 1 /\ p \o q # <<>>
        /\ (p \o q)[1] = ":" /\ (p \o q)[2] = n
    BY <2>1
  <2> QED
    BY <2>1, <2>2, <2>3, Zenon
<1>3. From(rest, S) = tail
  <2>1. Regroups(host, <<":", n>>, path, params)
    BY <1>1, ConcatFour, Zenon
  <2>2. rest = host \o tail
    BY <2>1, Zenon DEF Regroups
  <2>3. PICK x \in Seq(Token) : x = tail /\ x[1] \in S
    BY <1>2, Zenon
  <2>4. From(host \o x, S) = x
    BY <1>1, <2>3, CutAt, Zenon
  <2> HIDE DEF rest, tail
  <2> QED
    BY <2>2, <2>3, <2>4, Zenon
<1>4. PICK c \in Seq(Token) : c = <<"://">> /\ Len(c) = 1 /\ c[1] = "://"
  <2>1. "://" \in Token
    BY DEF Token, Separator
  <2> QED
    BY <2>1, OneToken, Zenon
<1>5. PICK r \in Seq(Token) : r = rest
  BY <1>1, ConcatAssociates, Zenon
<1>6. PICK url : url = Canonical(protocal, host, n, path, params)
  OBVIOUS
<1>7. From(url, S) = c \o r
  <2>1. url = (protocal \o c) \o r
    <3>1. Cuts(url, protocal, host, <<":", n>>, path, params)
      BY <1>6, CanonicalSplits, Zenon
    <3>2. url = (protocal \o <<"://">>) \o AfterScheme(url) /\ AfterScheme(url) = r
      BY <1>5, <3>1, Zenon DEF Cuts
    <3> QED
      BY <1>4, <3>2, Zenon
  <2>2. Associates(protocal, c, r) /\ c \o r \in Seq(Token)
    BY <1>1, ConcatAssociates, Zenon
  <2>3. (c \o r)[1] \in S
    BY <1>4, <1>5
  <2>4. From(protocal \o (c \o r), S) = c \o r
    BY <1>1, <2>2, <2>3, CutAt, Zenon
  <2> QED
    BY <2>1, <2>2, <2>4, Zenon DEF Associates
<1>8. c \o r # <<>> /\ Head(c \o r) = "://" /\ Tail(c \o r) = r
  BY <1>4, <1>5, SMTT(20)
<1>9. PICK b : b = tail /\ From(r, S) = b /\ Len(b) > 1 /\ b # <<>> /\ b[1] = ":" /\ b[2] = n
  BY <1>2, <1>3, <1>5, Zenon
<1>10. PICK f : f = From(url, S) /\ f # <<>> /\ Head(f) = "://" /\ From(Tail(f), S) = b
  BY <1>7, <1>8, <1>9, Zenon
<1> HIDE DEF rest, tail
<1>11. get_port(url) = n
  BY <1>1, <1>9, <1>10, Zenon DEF get_port
<1> QED
  BY <1>6, <1>11, Zenon

\* format_url fills in what a url leaves out.
LEMMA Formats ==
  ASSUME NEW url, url # <<>>, NEW protocal, NEW host, NEW port, NEW path, NEW params, NEW n,
         Splits(AfterScheme(url), host, port, path, params),
         protocal = IF Find(url, {"://"}) = 0 THEN <<"http">> ELSE Before(url, {"://"}),
         <<":", n>> = IF port = <<>> THEN <<":", get_port_by_protocal(protocal)>> ELSE port
  PROVE  format_url(url) =
           Canonical(protocal, host, n, IF path = <<>> THEN <<"/">> ELSE path, params)
<1> DEFINE i == get_url_info(url)
<1>1. i = [protocal |-> protocal, domain |-> host,
           port |-> IF port = <<>> THEN <<":", get_port_by_protocal(protocal)>> ELSE port,
           path |-> IF path = <<>> THEN <<"/">> ELSE path, params |-> params]
  BY Zenon DEF Splits, get_url_info
<1> HIDE DEF i
<1>2. /\ i.protocal = protocal /\ i.domain = host
      /\ i.port = IF port = <<>> THEN <<":", get_port_by_protocal(protocal)>> ELSE port
      /\ i.path = IF path = <<>> THEN <<"/">> ELSE path
      /\ i.params = params
  BY <1>1, Zenon
<1>3. format_url(url) = i.protocal \o <<"://">> \o i.domain \o i.port \o i.path \o i.params
  BY Zenon DEF format_url, i
<1>4. i.port = <<":", n>>
  BY <1>2, Zenon
<1> QED
  BY <1>2, <1>3, <1>4, Zenon DEF Canonical

\* The page that start() expects to miss.
Missing == <<"/", "nowaytobeexistpage301.html">>

LEMMA MissingPath ==
  /\ Missing \in Seq(Token \ {"?", "#"}) /\ Missing \in Seq(Token)
  /\ Missing # <<>> /\ Missing[1] = "/"
  /\ <<"/">> \in Seq(Token) /\ <<"nowaytobeexistpage301.html">> \in Seq(Token)
  /\ Missing = <<"/">> \o <<"nowaytobeexistpage301.html">>
  /\ "nowaytobeexistpage301.html" \in Token
<1>1. /\ "/" \in Token \ {"?", "#"} /\ "nowaytobeexistpage301.html" \in Token \ {"?", "#"}
      /\ "/" \in Token /\ "nowaytobeexistpage301.html" \in Token
  BY WordAssumption, Zenon DEF Token, Separator
<1>2. \A S, x, y : x \in S /\ y \in S => <<x, y>> \in Seq(S) /\ <<x>> \in Seq(S) /\ <<y>> \in Seq(S)
  OBVIOUS
<1>3. \A x, y : <<x, y>> # <<>> /\ <<x, y>>[1] = x
  OBVIOUS
<1>4. ASSUME NEW S, NEW x \in S, NEW y \in S PROVE <<x, y>> = <<x>> \o <<y>>
  <2>1. PICK a \in Seq(S) : a = <<x>> /\ Len(a) = 1 /\ a[1] = x
    BY OneToken, Zenon
  <2>2. PICK b \in Seq(S) : b = <<y>> /\ Len(b) = 1 /\ b[1] = y
    BY OneToken, Zenon
  <2>3. <<x, y>> \in Seq(S) /\ Len(<<x, y>>) = 2 /\ <<x, y>>[1] = x /\ <<x, y>>[2] = y
    OBVIOUS
  <2>4. PICK c \in Seq(S) : c = <<x, y>> /\ Len(c) = 2 /\ c[1] = x /\ c[2] = y
    BY <2>3, Zenon
  <2>5. /\ a \o b \in Seq(S) /\ Len(a \o b) = 2 /\ (a \o b)[1] = x /\ (a \o b)[2] = y
    BY <2>1, <2>2
  <2>6. PICK d \in Seq(S) : d = a \o b /\ Len(d) = 2 /\ d[1] = x /\ d[2] = y
    BY <2>5, Zenon
  <2>7. Len(c) = Len(d) /\ \A i \in 1 .. Len(c) : c[i] = d[i]
    BY <2>4, <2>6
  <2>8. c = d
    BY <2>7, SeqEqual, Zenon
  <2> QED
    BY <2>1, <2>2, <2>4, <2>6, <2>8, Zenon
<1> QED
  BY <1>1, <1>2, <1>3, <1>4, Zenon DEF Missing

MissedAt(url, u) ==
  make_err_url(url) = u /\ make_err_url(url) = Append(get_page(url), "nowaytobeexistpage301.html")

LEMMA CanonicalError ==
  ASSUME NEW protocal, NEW host, NEW n, NEW path, NEW params,
         IsCanonical(protocal, host, n, path, params)
  PROVE  /\ MissedAt(Canonical(protocal, host, n, path, params),
                     Canonical(protocal, host, n, Missing, <<>>))
         /\ IsCanonical(protocal, host, n, Missing, <<>>)
<1> DEFINE url == Canonical(protocal, host, n, path, params)
<1>1. /\ get_url_info(url).protocal = protocal /\ get_url_info(url).domain = host
      /\ get_url_info(url).port = <<":", n>> /\ url # <<>>
      /\ get_page(url) = (protocal \o <<"://">>) \o (host \o <<":", n>>) \o <<"/">>
  <2>1. Reads(url, protocal, host, n, path, params)
    BY CanonicalInfo, Zenon
  <2> HIDE DEF url
  <2>2. get_page(url) = (protocal \o <<"://">>) \o (host \o <<":", n>>) \o <<"/">>
    BY <2>1, Zenon DEF Reads, HasParts
  <2> QED
    BY <2>1, <2>2, Zenon DEF Reads
<1> HIDE DEF url
<1>2. /\ protocal \in Seq(Token) /\ host \in Seq(Token) /\ <<":", n>> \in Seq(Token)
      /\ <<"://">> \in Seq(Token)
  <2>1. "://" \in Token
    BY DEF Token, Separator
  <2> QED
    BY <2>1, OneToken, WordsOnly, Separators, PortToken, Zenon DEF IsCanonical
<1>3. PICK a \in Seq(Token) : a = protocal \o <<"://">>
  BY <1>2, ConcatAssociates, Zenon
<1>4. PICK b \in Seq(Token) : b = <<":", n>>
  BY <1>2, Zenon
<1>5. make_err_url(url) = a \o host \o b \o Missing
  BY <1>1, <1>3, <1>4, Zenon DEF make_err_url, Missing
<1>6. PICK x \in Seq(Token) : x = a \o host \o b
  BY <1>2, ConcatAssociates, Zenon
<1>7. make_err_url(url) = Canonical(protocal, host, n, Missing, <<>>)
  <2>1. Canonical(protocal, host, n, Missing, <<>>) = (x \o Missing) \o <<>>
    BY <1>3, <1>4, <1>6, Zenon DEF Canonical
  <2>2. x \o Missing \in Seq(Token)
    BY MissingPath, ConcatAssociates, Zenon
  <2>3. (x \o Missing) \o <<>> = x \o Missing
    BY <2>2, ConcatEmptySeq, Zenon
  <2> QED
    BY <1>5, <1>6, <2>1, <2>3, Zenon
<1>8. IsCanonical(protocal, host, n, Missing, <<>>)
  <2>1. \A S : <<>> \in Seq(S)
    OBVIOUS
  <2> QED
    BY <2>1, MissingPath, Zenon DEF IsCanonical
<1>9. make_err_url(url) = Append(get_page(url), "nowaytobeexistpage301.html")
  <2>1. get_page(url) = x \o <<"/">>
    <3>1. get_page(url) = a \o (host \o b) \o <<"/">>
      BY <1>1, <1>3, <1>4, Zenon
    <3>2. Associates(a, host, b)
      BY <1>2, ConcatAssociates, Zenon
    <3> QED
      BY <1>6, <3>1, <3>2, Zenon DEF Associates
  <2>2. PICK c \in Seq(Token) : c = <<"/">>
    BY MissingPath, Zenon
  <2>3. PICK d \in Seq(Token) : d = <<"nowaytobeexistpage301.html">>
    BY MissingPath, Zenon
  <2>4. Associates(x, c, d) /\ x \o c \in Seq(Token)
    BY ConcatAssociates, Zenon
  <2>5. Append(x \o c, "nowaytobeexistpage301.html") = (x \o c) \o d
    BY <2>3, <2>4, MissingPath, AppendIsConcat, Zenon
  <2>6. Missing = c \o d
    BY <2>2, <2>3, MissingPath, Zenon
  <2>7. (x \o c) \o d = x \o Missing
    BY <2>4, <2>6, Zenon DEF Associates
  <2>8. get_page(url) = x \o c
    BY <2>1, <2>2, Zenon
  <2>9. make_err_url(url) = x \o Missing
    BY <1>5, <1>6, Zenon
  <2> QED
    BY <2>5, <2>7, <2>8, <2>9, Zenon
<1> QED
  BY <1>7, <1>8, <1>9, Zenon DEF url, MissedAt

\* The connection goes to the host that the request names, and the page that start()
\* expects to miss is on the site.
Addressed(u) ==
  /\ format_url(u) = u
  /\ get_domain(u) \o <<":", get_port(u)>> = Host(u)
  /\ make_err_url(u) = Append(get_page(u), "nowaytobeexistpage301.html")

LEMMA CanonicalAddressed ==
  ASSUME NEW protocal, NEW host, NEW n, NEW path, NEW params,
         IsCanonical(protocal, host, n, path, params)
  PROVE  Addressed(Canonical(protocal, host, n, path, params))
<1> DEFINE url == Canonical(protocal, host, n, path, params)
<1>1. /\ Reads(url, protocal, host, n, path, params) /\ get_port(url) = n
      /\ MissedAt(url, Canonical(protocal, host, n, Missing, <<>>))
  BY CanonicalInfo, CanonicalPort, CanonicalError, Zenon
<1> HIDE DEF url
<1>2. format_url(url) = url /\ get_domain(url) = host /\ Host(url) = host \o <<":", n>>
  <2>1. HasParts(url, protocal, host, <<":", n>>, path, params)
    BY <1>1, Zenon DEF Reads
  <2>2. get_domain(url) = host
    BY <2>1, Zenon DEF HasParts
  <2> QED
    BY <1>1, <2>2, Zenon DEF Reads
<1>3. Addressed(url)
  BY <1>1, <1>2, Zenon DEF Addressed, MissedAt
<1> QED
  BY <1>3, Zenon DEF url

\* The parts of the main url of a task that was started with the parts s.
Protocal(s) == IF s.protocal = <<>> THEN <<"http">> ELSE s.protocal
Port(s)     == IF s.port = <<>> THEN get_port_by_protocal(Protocal(s)) ELSE s.port[1]
Path(s)     == IF s.path = <<>> THEN <<"/">> ELSE s.path
MainUrl(s)  == Canonical(Protocal(s), s.host, Port(s), Path(s), s.params)

LEMMA MainIsCanonical ==
  ASSUME NEW s, UrlParts(s)
  PROVE  IsCanonical(Protocal(s), s.host, Port(s), Path(s), s.params)
<1>1. Protocal(s) \in Seq(Word)
  <2>1. "http" \in Word
    BY WordAssumption, Zenon
  <2> QED
    BY <2>1, OneToken, Zenon DEF UrlParts, Protocal
<1>2. Port(s) \in Number
  <2>1. CASE s.port = <<>>
    <3>1. get_port_by_protocal(Protocal(s)) \in {"21", "22", "443", "80"}
      BY Zenon DEF get_port_by_protocal
    <3> QED
      BY <2>1, <3>1, WordAssumption DEF Port
  <2>2. CASE s.port # <<>>
    <3>1. s.port \in Seq(Number)
      BY Zenon DEF UrlParts
    <3>2. s.port[1] \in Number
      BY <2>2, <3>1
    <3> QED
      BY <2>2, <3>2, Zenon DEF Port
  <2> QED
    BY <2>1, <2>2, Zenon
<1>3. Path(s) \in Seq(Token \ {"?", "#"}) /\ Path(s) # <<>> /\ Path(s)[1] = "/"
  <2>1. "/" \in Token \ {"?", "#"}
    BY Zenon DEF Token, Separator
  <2>2. <<"/">> \in Seq(Token \ {"?", "#"}) /\ <<"/">>[1] = "/"
    BY <2>1, OneToken, Zenon
  <2>3. <<"/">> # <<>>
    OBVIOUS
  <2> QED
    BY <2>2, <2>3, Zenon DEF UrlParts, Path
<1> QED
  BY <1>1, <1>2, <1>3, Zenon DEF UrlParts, IsCanonical

LEMMA ColonPort ==
  ASSUME NEW q \in Seq(Number), q # <<>>, Len(q) <= 1
  PROVE  q[1] \in Number /\ <<":">> \o q = <<":", q[1]>>
<1>1. Len(q) = 1 /\ q[1] \in Number
  BY OneOnly, Zenon
<1>2. PICK a \in Seq(Token) : a = <<":">> /\ Len(a) = 1 /\ a[1] = ":"
  <2>1. ":" \in Token
    BY Zenon DEF Token, Separator
  <2> QED
    BY <2>1, OneToken, Zenon
<1>3. q \in Seq(Token)
  <2>1. Number \subseteq Token
    BY WordAssumption, Zenon DEF Token
  <2> QED
    BY <2>1, SeqMonotonic, Zenon
<1>4. PICK b \in Seq(Token) : b = <<":", q[1]>> /\ Len(b) = 2 /\ b[1] = ":" /\ b[2] = q[1]
  BY <1>1, PortToken, Zenon
<1>5. PICK d \in Seq(Token) : d = a \o q /\ Len(d) = 2 /\ d[1] = ":" /\ d[2] = q[1]
  BY <1>1, <1>2, <1>3, TwoOnly, Zenon
<1>6. Len(b) = Len(d) /\ \A i \in 1 .. Len(b) : b[i] = d[i]
  BY <1>4, <1>5
<1>7. b = d
  BY <1>6, SeqEqual, Zenon
<1> QED
  BY <1>1, <1>2, <1>4, <1>5, <1>7, Zenon

\* format_url makes the main url of what was written.
LEMMA WrittenFormats ==
  ASSUME NEW s, UrlParts(s)
  PROVE  format_url(Written(s)) = MainUrl(s)
<1>1. PICK host, path, params, protocal :
        /\ host = s.host /\ path = s.path /\ params = s.params /\ protocal = s.protocal
  OBVIOUS
<1>2. PICK port : port = Optional(s.port, <<":">> \o s.port)
  OBVIOUS
<1>3. /\ host \in Seq(Word) /\ host # <<>> /\ protocal \in Seq(Word)
      /\ path \in Seq(Token \ {"?", "#"}) /\ (path # <<>> => path[1] = "/")
      /\ params \in Seq(Token) /\ (params # <<>> => params[1] \in {"?", "#"})
      /\ (protocal = <<>> => path \o params \in Seq(Token \ {"://"}))
  BY <1>1, Zenon DEF UrlParts
<1>4. /\ (s.port = <<>> => port = <<>>)
      /\ (s.port # <<>> => s.port[1] \in Number /\ port = <<":", s.port[1]>>)
  <2>1. CASE s.port = <<>>
    BY <1>2, <2>1, Zenon DEF Optional
  <2>2. CASE s.port # <<>>
    <3>1. PICK q \in Seq(Number) : q = s.port /\ Len(q) <= 1 /\ q # <<>>
      BY <2>2, Zenon DEF UrlParts
    <3>2. q[1] \in Number /\ <<":">> \o q = <<":", q[1]>>
      BY <3>1, ColonPort, Zenon
    <3>3. port = <<":">> \o q
      BY <1>2, <2>2, <3>1, Zenon DEF Optional
    <3> QED
      BY <2>2, <3>1, <3>2, <3>3, Zenon
  <2> QED
    BY <2>1, <2>2, Zenon
<1>5. AreParts(host, port, path, params) /\ port \in Seq(Token \ {"://"})
  <2>1. port \in Seq(Token \ {"/", "?", "#"}) /\ port \in Seq(Token \ {"://"})
    <3>1. \A S : <<>> \in Seq(S)
      OBVIOUS
    <3>2. ASSUME NEW n \in Number PROVE <<":", n>> \in Seq(Token \ {"://"})
      <4>1. ":" \in Token \ {"://"} /\ n \in Token \ {"://"}
        BY WordAssumption, Zenon DEF Token, Separator
      <4>2. \A S, x, y : x \in S /\ y \in S => <<x, y>> \in Seq(S)
        OBVIOUS
      <4> QED
        BY <4>1, <4>2, Zenon
    <3> QED
      BY <1>4, <3>1, <3>2, PortToken, Zenon
  <2>2. port # <<>> => port[1] = ":"
    BY <1>4, PortToken, Zenon
  <2> QED
    BY <1>3, <2>1, <2>2, Zenon DEF AreParts
<1>6. PICK rest : rest = host \o port \o path \o params /\ Splits(rest, host, port, path, params)
  BY <1>5, SiteParts, Zenon
<1>7. <<":", Port(s)>> = IF port = <<>> THEN <<":", get_port_by_protocal(Protocal(s))>> ELSE port
  <2>1. s.port # <<>> => port # <<>>
    BY <1>4, PortToken, Zenon
  <2> QED
    BY <1>4, <2>1, Zenon DEF Port
<1>8. /\ host \in Seq(Token) /\ port \in Seq(Token) /\ path \in Seq(Token) /\ rest \in Seq(Token)
      /\ host \in Seq(Token \ {"://"}) /\ protocal \in Seq(Token \ {"://"})
      /\ protocal \in Seq(Token)
  <2>1. path \in Seq(Token) /\ port \in Seq(Token)
    BY <1>3, <1>5, SeqWithout
  <2> QED
    BY <1>3, <1>6, <2>1, WordsOnly, Separators, Zenon DEF Splits
<1>9. PICK url : url = Written(s)
  OBVIOUS
<1>10. /\ url # <<>> /\ AfterScheme(url) = rest
       /\ Protocal(s) = IF Find(url, {"://"}) = 0 THEN <<"http">> ELSE Before(url, {"://"})
  <2>1. CASE protocal = <<>>
    <3>1. <<>> \o host = host
      BY <1>8, ConcatEmptySeq, Zenon
    <3>2. url = rest
      BY <1>1, <1>2, <1>6, <1>9, <2>1, <3>1, Zenon DEF Written, Optional
    <3>3. PICK x \in Seq(Token \ {"://"}) : x = host \o port
      BY <1>5, <1>8, ConcatProperties, Zenon
    <3>4. PICK y \in Seq(Token \ {"://"}) : y = path \o params
      BY <1>3, <2>1, Zenon
    <3>5. x \o y \in Seq(Token \ {"://"})
      BY ConcatProperties, Zenon
    <3>6. Regroups(host, port, path, params)
      BY <1>3, <1>8, ConcatFour, Zenon
    <3>7. rest = x \o y
      BY <1>6, <3>3, <3>4, <3>6, Zenon DEF Regroups
    <3>8. url \in Seq(Token \ {"://"})
      BY <3>2, <3>5, <3>7, Zenon
    <3>9. Find(url, {"://"}) = 0 /\ AfterScheme(url) = url
      BY <3>8, SchemeNone, Zenon
    <3>10. url # <<>>
      <4>1. Regroups(host, port, path, params) /\ port \o (path \o params) \in Seq(Token)
        BY <1>3, <1>8, <3>6, ConcatAssociates, Zenon
      <4>2. PICK z \in Seq(Token) : rest = host \o z
        BY <1>6, <4>1, Zenon DEF Regroups
      <4>3. host \o z # <<>>
        BY <1>3, <1>8, <4>2
      <4> QED
        BY <3>2, <4>2, <4>3, Zenon
    <3> QED
      BY <1>1, <2>1, <3>2, <3>9, <3>10, Zenon DEF Protocal
  <2>2. CASE protocal # <<>>
    <3>1. PICK c \in Seq(Token) : c = <<"://">>
      <4>1. "://" \in Token
        BY Zenon DEF Token, Separator
      <4> QED
        BY <4>1, OneToken, Zenon
    <3>2. PICK x \in Seq(Token) : x = protocal \o c
      BY <1>8, ConcatAssociates, Zenon
    <3>3. url = x \o host \o port \o path \o params
      BY <1>1, <1>2, <1>9, <2>2, <3>1, <3>2, Zenon DEF Written, Optional
    <3>4. FactorsFirst(x, host, port, path, params)
      BY <1>3, <1>8, FactorFirst, Zenon
    <3>5. url = x \o rest
      BY <1>6, <3>3, <3>4, Zenon DEF FactorsFirst
    <3>6. url = (protocal \o <<"://">>) \o rest
      BY <3>1, <3>2, <3>5, Zenon
    <3>7. /\ url \in Seq(Token) /\ Find(url, {"://"}) # 0 /\ Before(url, {"://"}) = protocal
          /\ AfterScheme(url) = rest
      BY <1>8, <3>6, SchemeCut, Zenon
    <3>8. url # <<>>
      BY <3>7, FindIs
    <3> QED
      BY <1>1, <2>2, <3>7, <3>8, Zenon DEF Protocal
  <2> QED
    BY <2>1, <2>2, Zenon
<1>11. Splits(AfterScheme(url), host, port, path, params)
  BY <1>6, <1>10, Zenon
<1>12. format_url(url) =
         Canonical(Protocal(s), host, Port(s), IF path = <<>> THEN <<"/">> ELSE path, params)
  BY <1>7, <1>10, <1>11, Formats, Zenon
<1> QED
  BY <1>1, <1>9, <1>12, Zenon DEF MainUrl, Path

(***************************************************************************)
(* The urls of the tasks.                                                  *)
(***************************************************************************)
\* What a task with the parts s has for its main url.
ParsedAs(s) ==
  get_url_info(MainUrl(s)) =
    [protocal |-> IF s.protocal = <<>> THEN <<"http">> ELSE s.protocal, domain |-> s.host,
     port   |-> <<":">> \o IF s.port = <<>>
                           THEN <<get_port_by_protocal(IF s.protocal = <<>> THEN <<"http">>
                                                       ELSE s.protocal)>>
                           ELSE s.port,
     path   |-> IF s.path = <<>> THEN <<"/">> ELSE s.path,
     params |-> s.params]

LEMMA MainParsed ==
  ASSUME NEW s, UrlParts(s)
  PROVE  ParsedAs(s) /\ get_domain(MainUrl(s)) = s.host
<1>1. PICK port : port = <<":">> \o IF s.port = <<>> THEN <<get_port_by_protocal(Protocal(s))>>
                                    ELSE s.port
  BY Zenon
<1>2. port = <<":", Port(s)>>
  <2>1. CASE s.port = <<>>
    <3>1. PICK n \in Number : n = Port(s)
      BY MainIsCanonical, Zenon DEF IsCanonical
    <3>2. <<n>> \in Seq(Number) /\ Len(<<n>>) = 1 /\ <<n>>[1] = n
      BY OneToken, Zenon
    <3>3. PICK q \in Seq(Number) : q = <<n>> /\ Len(q) = 1 /\ q[1] = n
      BY <3>2, Zenon
    <3>4. q # <<>> /\ Len(q) <= 1
      BY <3>3, EmptySeq
    <3>5. <<":">> \o q = <<":", n>>
      BY <3>3, <3>4, ColonPort, Zenon
    <3> QED
      BY <1>1, <2>1, <3>1, <3>3, <3>5, Zenon DEF Port
  <2>2. CASE s.port # <<>>
    <3>1. PICK q \in Seq(Number) : q = s.port /\ Len(q) <= 1 /\ q # <<>>
      BY <2>2, Zenon DEF UrlParts
    <3>2. <<":">> \o q = <<":", q[1]>>
      BY <3>1, ColonPort, Zenon
    <3> QED
      BY <1>1, <2>2, <3>1, <3>2, Zenon DEF Port
  <2> QED
    BY <2>1, <2>2, Zenon
<1>3. HasParts(MainUrl(s), Protocal(s), s.host, <<":", Port(s)>>, Path(s), s.params)
  <2>1. PICK p, h, n, path, params :
          p = Protocal(s) /\ h = s.host /\ n = Port(s) /\ path = Path(s) /\ params = s.params
    BY Zenon
  <2>2. IsCanonical(p, h, n, path, params) /\ MainUrl(s) = Canonical(p, h, n, path, params)
    BY <2>1, MainIsCanonical, Zenon DEF MainUrl
  <2>3. Reads(MainUrl(s), p, h, n, path, params)
    BY <2>2, CanonicalInfo, Zenon
  <2> QED
    BY <2>1, <2>3, Zenon DEF Reads
<1>4. get_url_info(MainUrl(s)) =
        [protocal |-> Protocal(s), domain |-> s.host, port |-> port, path |-> Path(s),
         params |-> s.params]
  BY <1>2, <1>3, Zenon DEF HasParts
<1>5. ParsedAs(s)
  BY <1>1, <1>4, Zenon DEF ParsedAs, Protocal, Path
<1> QED
  BY <1>3, <1>5, Zenon DEF HasParts

LEMMA MainAddressed ==
  ASSUME NEW s, UrlParts(s)
  PROVE  Addressed(MainUrl(s)) /\ Addressed(make_err_url(MainUrl(s)))
<1>1. PICK p, h, n, path, params :
        p = Protocal(s) /\ h = s.host /\ n = Port(s) /\ path = Path(s) /\ params = s.params
  BY Zenon
<1>2. IsCanonical(p, h, n, path, params) /\ MainUrl(s) = Canonical(p, h, n, path, params)
  BY <1>1, MainIsCanonical, Zenon DEF MainUrl
<1>3. /\ MissedAt(MainUrl(s), Canonical(p, h, n, Missing, <<>>))
      /\ IsCanonical(p, h, n, Missing, <<>>)
  BY <1>2, CanonicalError, Zenon
<1>4. Addressed(MainUrl(s))
  BY <1>2, CanonicalAddressed, Zenon
<1>5. Addressed(Canonical(p, h, n, Missing, <<>>))
  BY <1>3, CanonicalAddressed, Zenon
<1> QED
  BY <1>3, <1>4, <1>5, Zenon DEF MissedAt

\* The main url and the union id of a task are those of the parts it was started with.
UrlInv ==
  /\ DOMAIN site = Task /\ DOMAIN day = Task /\ DOMAIN main_url = Task
  /\ DOMAIN task_union_id = Task /\ DOMAIN phase = Task
  /\ \A t \in Started :
       /\ site[t] \in Site /\ main_url[t] = MainUrl(site[t])
       /\ task_union_id[t] = make_union_id(MainUrl(site[t]), day[t])

LEMMA UrlInit == ASSUME Init PROVE UrlInv
BY Zenon DEF Init, UrlInv, Started

LEMMA UrlStep ==
  ASSUME UrlInv, [Next]_vars
  PROVE  UrlInv'
<1>1. ASSUME NEW t \in Task, InsertNew(t) PROVE UrlInv'
  <2>1. PICK s \in Site, d \in Day : NewTask(t, s, d)
    BY <1>1, Zenon DEF InsertNew
  <2>2. format_url(Written(s)) = MainUrl(s)
    BY SiteAssumption, WrittenFormats, Zenon
  <2>3. PICK url, id : url = MainUrl(s) /\ id = make_union_id(MainUrl(s), d)
    BY Zenon
  <2>4. /\ site' = [site EXCEPT ![t] = s] /\ day' = [day EXCEPT ![t] = d]
        /\ main_url' = [main_url EXCEPT ![t] = url]
        /\ task_union_id' = [task_union_id EXCEPT ![t] = id]
        /\ phase' = [phase EXCEPT ![t] = "checking"]
    BY <1>1, <2>1, <2>2, <2>3, Zenon DEF NewTask, InsertNew
  <2>5. /\ DOMAIN site' = Task /\ DOMAIN day' = Task /\ DOMAIN main_url' = Task
        /\ DOMAIN task_union_id' = Task /\ DOMAIN phase' = Task
        /\ site'[t] = s /\ day'[t] = d /\ main_url'[t] = url /\ task_union_id'[t] = id
        /\ \A u \in Task : u # t =>
             /\ site'[u] = site[u] /\ day'[u] = day[u] /\ main_url'[u] = main_url[u]
             /\ task_union_id'[u] = task_union_id[u] /\ phase'[u] = phase[u]
    BY <2>4, Zenon DEF UrlInv
  <2>6. ASSUME NEW u \in Started'
        PROVE  /\ site'[u] \in Site /\ main_url'[u] = MainUrl(site'[u])
               /\ task_union_id'[u] = make_union_id(MainUrl(site'[u]), day'[u])
    <3>1. CASE u = t
      BY <2>3, <2>5, <3>1, Zenon
    <3>2. CASE u # t
      BY <2>5, <2>6, <3>2, Zenon DEF UrlInv, Started
    <3> QED
      BY <3>1, <3>2, Zenon
  <2> QED
    BY <2>5, <2>6, Zenon DEF UrlInv
<1>2. ASSUME NEW t \in Task, StartFails(t) \/ StartSucceeds(t) \/ FinishedOne(t) PROVE UrlInv'
  <2>1. UNCHANGED <<site, day, main_url, task_union_id>>
    BY <1>2, Zenon DEF StartFails, StartSucceeds, FinishedOne, ScanEnds, urls
  <2>2. phase[t] # "new" /\ \E p : phase' = [phase EXCEPT ![t] = p]
    BY <1>2, Zenon DEF StartFails, StartSucceeds, FinishedOne, ScanEnds
  <2>3. DOMAIN phase' = Task /\ Started' \subseteq Started
    BY <2>2, Zenon DEF UrlInv, Started
  <2> QED
    BY <2>1, <2>3, Zenon DEF UrlInv
<1>3. CASE UNCHANGED vars
  BY <1>3, Zenon DEF vars, urls, UrlInv, Started
<1> QED
  BY <1>1, <1>2, <1>3, Zenon DEF Next

\* Whatever urls the tasks are started with, and whichever of their parts are left out,
\* the main url has the site's host, port and path, the defaults of format_url for what is
\* missing, and the parameters whole.
THEOREM UrlParsedHolds == Spec => []UrlParsed
<1>1. ASSUME UrlInv PROVE UrlParsed
  <2>1. ASSUME NEW t \in Started PROVE main_url[t] = MainUrl(site[t]) /\ ParsedAs(site[t])
    BY <1>1, SiteAssumption, MainParsed, Zenon DEF UrlInv
  <2> QED
    BY <2>1, Zenon DEF UrlParsed, ParsedAs
<1> QED
  BY <1>1, UrlInit, UrlStep, PTL DEF Spec

\* download_one connects to the host and port that the Host line of its request names, for
\* the main url and for the page that start() expects to miss, whatever the site.
THEOREM AddressIsHostHolds == Spec => []AddressIsHost
<1>1. ASSUME UrlInv PROVE AddressIsHost
  <2>1. ASSUME NEW t \in Started, NEW u \in {main_url[t], make_err_url(main_url[t])}
        PROVE  Addressed(u)
    <3>1. Addressed(main_url[t]) /\ Addressed(make_err_url(main_url[t]))
      BY <1>1, SiteAssumption, MainAddressed, Zenon DEF UrlInv
    <3> QED
      BY <3>1, Zenon
  <2> QED
    BY <2>1, Zenon DEF AddressIsHost, Addressed
<1> QED
  BY <1>1, UrlInit, UrlStep, PTL DEF Spec

\* Tasks share a union id exactly when they are for one host on one day: the scheme, the
\* port, the path and the parameters of their urls do not tell them apart.
THEOREM UnionIdIsSiteHolds == Spec => []UnionIdIsSite
<1>1. ASSUME UrlInv PROVE UnionIdIsSite
  <2>1. ASSUME NEW t \in Started PROVE task_union_id[t] = <<site[t].host, day[t]>>
    BY <1>1, SiteAssumption, MainParsed, Zenon DEF UrlInv, make_union_id
  <2> QED
    BY <2>1 DEF UnionIdIsSite
<1> QED
  BY <1>1, UrlInit, UrlStep, PTL DEF Spec

(***************************************************************************)
(* The list of the tasks.                                                  *)
(***************************************************************************)
Distinct(l) == \A i, j \in DOMAIN l : l[i] = l[j] => i = j

IsPart(S, l, m, n, a) ==
  /\ a \in Seq(S) /\ Len(a) = IF m <= n THEN n - m + 1 ELSE 0
  /\ \A i \in 1 .. n - m + 1 : a[i] = l[m + i - 1]

LEMMA Part ==
  ASSUME NEW S, NEW l, NEW m \in Int, NEW n \in Int, \A i \in m .. n : l[i] \in S
  PROVE  IsPart(S, l, m, n, SubSeq(l, m, n))
<1>1. SubSeq(l, m, n) \in Seq(S) /\ Len(SubSeq(l, m, n)) = IF m <= n THEN n - m + 1 ELSE 0
  BY SubSeqProperties, Zenon
<1>2. \A i \in 1 .. n - m + 1 : SubSeq(l, m, n)[i] = l[m + i - 1]
  BY SubSeqProperties
<1> QED
  BY <1>1, <1>2, Zenon DEF IsPart

LEMMA EraseIs ==
  ASSUME NEW S, NEW l \in Seq(S), NEW k \in 1 .. Len(l)
  PROVE  /\ Erase(l, k) \in Seq(S) /\ Len(Erase(l, k)) = Len(l) - 1
         /\ \A i \in 1 .. Len(l) - 1 : Erase(l, k)[i] = IF i < k THEN l[i] ELSE l[i + 1]
<1>1. PICK n \in Nat : n = Len(l) /\ k \in 1 .. n
  BY LenProperties, Zenon
<1>2. PICK p \in Int, q \in Int : p = k - 1 /\ q = k + 1
  BY <1>1
<1>3. PICK a, b : a = SubSeq(l, 1, p) /\ b = SubSeq(l, q, n)
  BY Zenon
<1>4. /\ a \in Seq(S) /\ b \in Seq(S)
      /\ Len(a) = p /\ \A i \in 1 .. p : a[i] = l[i]
      /\ Len(b) = n - k /\ \A i \in 1 .. n - k : b[i] = l[k + i]
  <2>1. \A i \in 1 .. n : l[i] \in S
    BY <1>1, ElementOfSeq, Zenon
  <2>2. /\ 1 \in Int /\ n \in Int /\ (\A i \in 1 .. p : l[i] \in S)
        /\ \A i \in q .. n : l[i] \in S
    BY <1>1, <1>2, <2>1
  <2>3. IsPart(S, l, 1, p, a) /\ IsPart(S, l, q, n, b)
    BY <1>3, <2>2, Part, Zenon
  <2>5. Len(a) = p /\ \A i \in 1 .. p : a[i] = l[i]
    BY <1>1, <1>2, <2>3 DEF IsPart
  <2>6. Len(b) = n - k /\ \A i \in 1 .. n - k : b[i] = l[k + i]
    BY <1>1, <1>2, <2>3 DEF IsPart
  <2> QED
    BY <2>3, <2>5, <2>6, Zenon DEF IsPart
<1>5. PICK r : r = a \o b
  BY Zenon
<1>6. /\ r \in Seq(S) /\ Len(r) = Len(a) + Len(b)
      /\ \A i \in 1 .. Len(a) + Len(b) : r[i] = IF i <= Len(a) THEN a[i] ELSE b[i - Len(a)]
  BY <1>4, <1>5, ConcatProperties, Zenon
<1>7. ASSUME NEW i \in 1 .. n - 1 PROVE r[i] = IF i < k THEN l[i] ELSE l[i + 1]
  <2>0. i \in 1 .. p + (n - k) /\ r[i] = IF i <= p THEN a[i] ELSE b[i - p]
    <3>1. Len(a) = p /\ Len(b) = n - k
      BY <1>4, Zenon
    <3>2. \A j \in 1 .. p + (n - k) : r[j] = IF j <= p THEN a[j] ELSE b[j - p]
      BY <1>6, <3>1, Zenon
    <3>3. i \in 1 .. p + (n - k)
      BY ONLY <1>1, <1>2, i \in 1 .. n - 1
    <3> QED
      BY <3>2, <3>3, Zenon
  <2>1. CASE i < k
    <3>1. r[i] = a[i] /\ i \in 1 .. p
      BY <1>1, <1>2, <2>0, <2>1
    <3> QED
      BY <1>4, <2>1, <3>1, Zenon
  <2>2. CASE ~(i < k)
    <3>1. r[i] = b[i - p] /\ i - p \in 1 .. n - k /\ k + (i - p) = i + 1
      BY <1>1, <1>2, <2>0, <2>2
    <3>2. b[i - p] = l[k + (i - p)]
      BY <1>4, <3>1, Zenon
    <3> QED
      BY <2>2, <3>1, <3>2, Zenon
  <2> QED
    BY <2>1, <2>2, Zenon
<1>8. Len(r) = n - 1
  BY <1>1, <1>2, <1>4, <1>6
<1>9. r = Erase(l, k)
  BY <1>1, <1>2, <1>3, <1>5, Zenon DEF Erase
<1> QED
  BY <1>1, <1>6, <1>7, <1>8, <1>9, Zenon

\* Without its entry at k, a list of distinct entries has all the others.
LEMMA Removed ==
  ASSUME NEW S, NEW l \in Seq(S), NEW k \in 1 .. Len(l), Distinct(l), NEW r, r = Erase(l, k)
  PROVE  r \in Seq(S) /\ Distinct(r) /\ \A e : Contains(r, e) <=> Contains(l, e) /\ e # l[k]
<1>1. /\ r \in Seq(S) /\ Len(r) = Len(l) - 1
      /\ \A i \in 1 .. Len(l) - 1 : r[i] = IF i < k THEN l[i] ELSE l[i + 1]
  BY EraseIs, Zenon
<1>2. Len(l) \in Nat /\ DOMAIN l = 1 .. Len(l) /\ DOMAIN r = 1 .. Len(r)
  BY <1>1, LenProperties, Zenon
<1>3. \A i, j \in 1 .. Len(l) : l[i] = l[j] => i = j
  BY <1>2, Zenon DEF Distinct
<1>4. Distinct(r)
  BY <1>1, <1>2, <1>3 DEF Distinct
<1>5. ASSUME NEW e, Contains(r, e) PROVE Contains(l, e) /\ e # l[k]
  BY <1>1, <1>2, <1>3, <1>5 DEF Contains
<1>6. ASSUME NEW e, Contains(l, e), e # l[k] PROVE Contains(r, e)
  <2>1. PICK i \in 1 .. Len(l) : l[i] = e
    BY <1>6, Zenon DEF Contains
  <2>2. CASE i < k
    BY <1>1, <1>2, <2>1, <2>2 DEF Contains
  <2>3. CASE i > k
    <3>1. i - 1 \in 1 .. Len(l) - 1 /\ ~(i - 1 < k) /\ (i - 1) + 1 = i
      BY <1>2, <2>3
    <3>2. r[i - 1] = e
      BY <1>1, <2>1, <3>1, Zenon
    <3> QED
      BY <1>1, <3>1, <3>2, Zenon DEF Contains
  <2> QED
    BY <1>6, <2>1, <2>2, <2>3
<1> QED
  BY <1>1, <1>4, <1>5, <1>6, Zenon

LEMMA Appended ==
  ASSUME NEW S, NEW l \in Seq(S), NEW x \in S, Distinct(l), ~Contains(l, x),
         NEW r, r = Append(l, x)
  PROVE  r \in Seq(S) /\ Distinct(r) /\ \A e : Contains(r, e) <=> Contains(l, e) \/ e = x
<1>1. /\ r \in Seq(S) /\ Len(r) = Len(l) + 1
      /\ \A i \in 1 .. Len(l) : r[i] = l[i]
      /\ r[Len(l) + 1] = x
  BY AppendProperties
<1>2. Len(l) \in Nat /\ DOMAIN l = 1 .. Len(l) /\ DOMAIN r = 1 .. Len(r)
  BY <1>1, LenProperties, Zenon
<1>3. \A i \in 1 .. Len(l) : l[i] # x /\ \A j \in 1 .. Len(l) : l[i] = l[j] => i = j
  BY <1>2, Zenon DEF Distinct, Contains
<1>4. Distinct(r)
  BY <1>1, <1>2, <1>3 DEF Distinct
<1> QED
  BY <1>1, <1>2, <1>4 DEF Contains

\* A task whose union id is its own has lost start_ptr exactly when it is done; insert_new
\* finds start_ptr set.
ListInv ==
  /\ m_list \in Seq(Task) /\ start_ptr \in [Task -> {"set", "null"}]
  /\ phase \in [Task -> {"new", "checking", "failed", "working", "done"}]
  /\ DOMAIN task_union_id = Task
  /\ \A t \in Task : phase[t] = "new" => start_ptr[t] = "set"
  /\ Distinct(m_list)
  /\ \A t \in Task : Contains(m_list, t) <=> phase[t] # "new" /\ start_ptr[t] = "set"
  /\ \A t \in Started : Alone(t) => (phase[t] = "done" <=> start_ptr[t] = "null")

LEMMA ListInit == ASSUME Init PROVE ListInv
<1>1. m_list \in Seq(Task) /\ Distinct(m_list) /\ \A t : ~Contains(m_list, t)
  BY DEF Init, Distinct, Contains
<1> QED
  BY <1>1, Zenon DEF Init, ListInv, Started

\* Tasks that have been started keep their union ids, so that a task which is alone was so
\* before.
LEMMA AloneBefore ==
  ASSUME NEW t \in Started, Started \subseteq Started',
         \A u \in Started : task_union_id'[u] = task_union_id[u], Alone(t)'
  PROVE  Alone(t)
BY Zenon DEF Alone

LEMMA InsertKeepsList ==
  ASSUME ListInv, NEW t \in Task, InsertNew(t)
  PROVE  ListInv'
<1>1. /\ phase[t] = "new" /\ phase' = [phase EXCEPT ![t] = "checking"]
      /\ m_list' = Append(m_list, t) /\ start_ptr' = start_ptr
  BY Zenon DEF InsertNew
<1>2. PICK id : task_union_id' = [task_union_id EXCEPT ![t] = id]
  BY Zenon DEF InsertNew, NewTask
<1>3. ~Contains(m_list, t) /\ start_ptr[t] = "set"
  BY <1>1, Zenon DEF ListInv
<1>4. /\ m_list' \in Seq(Task) /\ Distinct(m_list')
      /\ \A e : Contains(m_list', e) <=> Contains(m_list, e) \/ e = t
  BY <1>1, <1>3, Appended, Zenon DEF ListInv
<1>5. /\ phase' \in [Task -> {"new", "checking", "failed", "working", "done"}]
      /\ phase'[t] = "checking" /\ \A u \in Task : u # t => phase'[u] = phase[u]
      /\ DOMAIN task_union_id' = Task
      /\ \A u \in Task : u # t => task_union_id'[u] = task_union_id[u]
  BY <1>1, <1>2, Zenon DEF ListInv
<1>6. Started' = Started \cup {t} /\ t \notin Started
  BY <1>1, <1>5, Zenon DEF Started
<1>7. ASSUME NEW u \in Started', Alone(u)' PROVE phase'[u] = "done" <=> start_ptr'[u] = "null"
  <2>1. CASE u = t
    BY <1>1, <1>3, <1>5, <2>1
  <2>2. CASE u # t
    <3>1. u \in Started /\ Started \subseteq Started' /\ \A v \in Started : v \in Task /\ v # t
      BY <1>6, <1>7, <2>2, Zenon DEF Started
    <3>2. Alone(u)
      BY <1>5, <1>7, <3>1, AloneBefore, Zenon
    <3> QED
      BY <1>1, <1>5, <2>2, <3>1, <3>2, Zenon DEF ListInv
  <2> QED
    BY <2>1, <2>2, Zenon
<1>8. ASSUME NEW u \in Task
      PROVE  /\ phase'[u] = "new" => start_ptr'[u] = "set"
             /\ Contains(m_list', u) <=> phase'[u] # "new" /\ start_ptr'[u] = "set"
  <2>1. CASE u = t
    BY <1>1, <1>3, <1>4, <1>5, <2>1
  <2>2. CASE u # t
    BY <1>1, <1>4, <1>5, <2>2, Zenon DEF ListInv
  <2> QED
    BY <2>1, <2>2, Zenon
<1>9. start_ptr' \in [Task -> {"set", "null"}]
  BY <1>1, Zenon DEF ListInv
<1> QED
  BY <1>4, <1>5, <1>7, <1>8, <1>9, Zenon DEF ListInv

LEMMA StartKeepsList ==
  ASSUME ListInv, NEW t \in Task, StartFails(t) \/ StartSucceeds(t)
  PROVE  ListInv'
<1>1. /\ phase[t] = "checking" /\ UNCHANGED <<m_list, start_ptr, task_union_id>>
      /\ \E p \in {"failed", "working"} : phase' = [phase EXCEPT ![t] = p]
  BY Zenon DEF StartFails, StartSucceeds, urls
<1>2. /\ phase' \in [Task -> {"new", "checking", "failed", "working", "done"}]
      /\ phase'[t] \in {"failed", "working"} /\ \A u \in Task : u # t => phase'[u] = phase[u]
  BY <1>1 DEF ListInv
<1>3. \A u \in Task : (phase'[u] = "new" <=> phase[u] = "new")
                      /\ (phase'[u] = "done" <=> phase[u] = "done")
  BY <1>1, <1>2, Zenon
<1>4. Started' = Started
  BY <1>3, Zenon DEF Started
<1>5. ASSUME NEW u \in Started', Alone(u)' PROVE phase'[u] = "done" <=> start_ptr'[u] = "null"
  <2>1. u \in Started /\ u \in Task /\ Alone(u)
    BY <1>1, <1>4, <1>5, AloneBefore, Zenon DEF Started
  <2> QED
    BY <1>1, <1>3, <2>1, Zenon DEF ListInv
<1> QED
  BY <1>1, <1>2, <1>3, <1>5, Zenon DEF ListInv

\* What finished_one does to the list and to start_ptr: it erases the first entry with the
\* union id of t, if there is one.
Erases(t) ==
  \/ /\ UNCHANGED <<m_list, start_ptr>>
     /\ \A i \in 1 .. Len(m_list) : task_union_id[m_list[i]] # task_union_id[t]
  \/ \E k \in 1 .. Len(m_list) :
       /\ task_union_id[m_list[k]] = task_union_id[t]
       /\ start_ptr' = [start_ptr EXCEPT ![m_list[k]] = "null"]
       /\ m_list' = Erase(m_list, k)

LEMMA FinishedErases ==
  ASSUME ListInv, NEW t \in Task, FinishedOne(t)
  PROVE  Erases(t)
<1> DEFINE I == {i \in 1 .. Len(m_list) : m_list[i] \in SameId(t)}
           k == IF I # {} THEN Min(I) ELSE 0
<1>1. IF k = 0 THEN UNCHANGED <<m_list, start_ptr>>
      ELSE /\ start_ptr' = [start_ptr EXCEPT ![m_list[k]] = "null"]
           /\ m_list' = Erase(m_list, k)
  BY Zenon DEF FinishedOne, Find
<1>2. I \subseteq 1 .. Len(m_list) /\ Len(m_list) \in Nat
  BY LenProperties, Zenon DEF ListInv
<1>3. CASE I = {}
  <2>1. UNCHANGED <<m_list, start_ptr>>
    BY <1>1, <1>3, Zenon
  <2>2. \A i \in 1 .. Len(m_list) : task_union_id[m_list[i]] # task_union_id[t]
    BY <1>3, ElementOfSeq, Zenon DEF SameId, ListInv
  <2> QED
    BY <2>1, <2>2, Zenon DEF Erases
<1>4. CASE I # {}
  <2>1. k \in I
    <3>1. I \subseteq Nat
      BY <1>2
    <3>2. Min(I) \in I
      <4> HIDE DEF I
      <4> QED
        BY <1>4, <3>1, MinIsLeast, Zenon
    <3> QED
      BY <1>4, <3>2, Zenon
  <2> HIDE DEF k
  <2>2. k # 0 /\ k \in 1 .. Len(m_list) /\ m_list[k] \in SameId(t)
    BY <2>1
  <2>3. task_union_id[m_list[k]] = task_union_id[t]
    BY <2>2, Zenon DEF SameId
  <2> QED
    BY <1>1, <2>2, <2>3, Zenon DEF Erases
<1> QED
  BY <1>3, <1>4, Zenon

LEMMA FinishKeepsList ==
  ASSUME ListInv, NEW t \in Task, FinishedOne(t)
  PROVE  ListInv'
<1>1. /\ phase[t] \in {"working", "done"} /\ task_union_id' = task_union_id
      /\ phase' = [phase EXCEPT ![t] = "done"]
  BY Zenon DEF FinishedOne, ScanEnds, urls
<1>2. /\ phase' \in [Task -> {"new", "checking", "failed", "working", "done"}]
      /\ phase'[t] = "done" /\ \A u \in Task : u # t => phase'[u] = phase[u]
      /\ \A u \in Task : phase'[u] = "new" <=> phase[u] = "new"
  BY <1>1, Zenon DEF ListInv
<1>3. Started' = Started /\ t \in Started
  BY <1>1, <1>2, Zenon DEF Started
<1>4. ASSUME NEW u \in Started', Alone(u)'
      PROVE  u \in Task /\ u \in Started /\ Alone(u)
  BY <1>1, <1>3, <1>4, AloneBefore, Zenon DEF Started
<1>5. \A i \in 1 .. Len(m_list) : m_list[i] \in Started /\ m_list[i] \in Task
  <2>1. ASSUME NEW i \in 1 .. Len(m_list) PROVE m_list[i] \in Started /\ m_list[i] \in Task
    <3>1. m_list[i] \in Task /\ Contains(m_list, m_list[i])
      BY ElementOfSeq, Zenon DEF ListInv, Contains
    <3> QED
      BY <3>1, Zenon DEF ListInv, Started
  <2> QED
    BY <2>1, Zenon
<1>6. CASE UNCHANGED <<m_list, start_ptr>> /\
           \A i \in 1 .. Len(m_list) : task_union_id[m_list[i]] # task_union_id[t]
  <2>1. start_ptr[t] = "null"
    <3>1. ~Contains(m_list, t)
      BY <1>6, Zenon DEF Contains
    <3>2. start_ptr[t] # "set" /\ start_ptr[t] \in {"set", "null"}
      BY <1>1, <3>1 DEF ListInv
    <3> QED
      BY <3>2, Zenon
  <2>2. ASSUME NEW u \in Started', Alone(u)' PROVE phase'[u] = "done" <=> start_ptr'[u] = "null"
    <3>1. CASE u = t
      BY <1>2, <1>6, <2>1, <3>1, Zenon
    <3>2. CASE u # t
      BY <1>2, <1>4, <1>6, <2>2, <3>2, Zenon DEF ListInv
    <3> QED
      BY <3>1, <3>2, Zenon
  <2> QED
    BY <1>1, <1>2, <1>6, <2>2, Zenon DEF ListInv
<1>7. ASSUME NEW k \in 1 .. Len(m_list), task_union_id[m_list[k]] = task_union_id[t],
             start_ptr' = [start_ptr EXCEPT ![m_list[k]] = "null"],
             m_list' = Erase(m_list, k)
      PROVE  ListInv'
  <2>1. PICK v \in Task : v = m_list[k] /\ v \in Started
    BY <1>5, Zenon
  <2>2. /\ m_list' \in Seq(Task) /\ Distinct(m_list')
        /\ \A e : Contains(m_list', e) <=> Contains(m_list, e) /\ e # v
    <3>1. PICK l, r : l \in Seq(Task) /\ l = m_list /\ r = m_list' /\ Distinct(l)
      BY Zenon DEF ListInv
    <3>2. r \in Seq(Task) /\ Distinct(r) /\ \A e : Contains(r, e) <=> Contains(l, e) /\ e # l[k]
      BY <1>7, <3>1, Removed, Zenon
    <3> QED
      BY <2>1, <3>1, <3>2, Zenon
  <2>3. /\ start_ptr' \in [Task -> {"set", "null"}] /\ start_ptr'[v] = "null"
        /\ \A u \in Task : u # v => start_ptr'[u] = start_ptr[u]
    BY <1>7, <2>1 DEF ListInv
  <2>4. ASSUME NEW u \in Started', Alone(u)' PROVE phase'[u] = "done" <=> start_ptr'[u] = "null"
    <3>0. u \in Task /\ u \in Started /\ Alone(u)
      BY <1>4, <2>4, Zenon
    <3>1. task_union_id[v] = task_union_id[t]
      BY <1>7, <2>1, Zenon
    <3>2. CASE u = t
      <4>1. v = t
        BY <2>1, <3>0, <3>1, <3>2, Zenon DEF Alone
      <4> QED
        BY <1>2, <2>3, <3>2, <4>1, Zenon
    <3>3. CASE u # t
      <4>1. v # u
        BY <1>3, <3>0, <3>1, <3>3, Zenon DEF Alone
      <4>2. start_ptr'[u] = start_ptr[u] /\ phase'[u] = phase[u]
        BY <1>2, <2>3, <3>0, <3>3, <4>1, Zenon
      <4>3. phase[u] = "done" <=> start_ptr[u] = "null"
        BY <3>0, Zenon DEF ListInv
      <4> QED
        BY <4>2, <4>3, Zenon
    <3> QED
      BY <3>2, <3>3, Zenon
  <2>5. ASSUME NEW u \in Task
        PROVE  /\ phase'[u] = "new" => start_ptr'[u] = "set"
               /\ Contains(m_list', u) <=> phase'[u] # "new" /\ start_ptr'[u] = "set"
    <3>1. CASE u = v
      <4>1. phase'[u] # "new"
        BY <1>3, <2>1, <3>1, Zenon DEF Started
      <4>2. ~Contains(m_list', u)
        BY <2>2, <3>1, Zenon
      <4>3. start_ptr'[u] # "set"
        BY <2>3, <3>1
      <4> QED
        BY <4>1, <4>2, <4>3, Zenon
    <3>2. CASE u # v
      <4>1. /\ Contains(m_list', u) <=> Contains(m_list, u)
            /\ start_ptr'[u] = start_ptr[u] /\ (phase'[u] = "new" <=> phase[u] = "new")
        BY <1>2, <2>2, <2>3, <3>2, Zenon
      <4>2. /\ phase[u] = "new" => start_ptr[u] = "set"
            /\ Contains(m_list, u) <=> phase[u] # "new" /\ start_ptr[u] = "set"
        BY Zenon DEF ListInv
      <4> QED
        BY <4>1, <4>2, Zenon
    <3> QED
      BY <3>1, <3>2, Zenon
  <2> QED
    BY <1>1, <1>2, <2>2, <2>3, <2>4, <2>5, Zenon DEF ListInv
<1>8. Erases(t)
  BY FinishedErases, Zenon
<1> QED
  BY <1>6, <1>7, <1>8, Zenon DEF Erases

LEMMA ListStep ==
  ASSUME ListInv, [Next]_vars
  PROVE  ListInv'
<1>1. CASE UNCHANGED vars
  BY <1>1, Zenon DEF vars, urls, ListInv, Started, Alone
<1> QED
  BY <1>1, InsertKeepsList, StartKeepsList, FinishKeepsList, Zenon DEF Next

\* For any number of tasks, also when some share a union id: a task is in the list, and
\* there once, exactly from insert_new until a call of finished_one takes its start_ptr.
THEOREM ListedHasStartHolds == Spec => []ListedHasStart
<1>1. ListInv => ListedHasStart
  BY Zenon DEF ListInv, ListedHasStart, Distinct
<1> QED
  BY <1>1, ListInit, ListStep, PTL DEF Spec

\* For any number of tasks: one whose union id is its own has start_ptr and its place in
\* the list until its own crawl is done and neither afterwards, in whatever order and
\* however often the scans of the tasks reach finished_one.
THEOREM OwnFinishHolds == Spec => []OwnFinish
<1>1. ListInv => OwnFinish
  <2> SUFFICES ASSUME ListInv, NEW t \in Started, Alone(t)
               PROVE  /\ phase[t] \in {"checking", "working", "failed"}
                           => start_ptr[t] = "set" /\ Contains(m_list, t)
                      /\ phase[t] = "done" => start_ptr[t] = "null" /\ ~Contains(m_list, t)
    BY Zenon DEF OwnFinish
  <2>1. t \in Task /\ phase[t] # "new"
    BY Zenon DEF Started
  <2>2. /\ start_ptr[t] \in {"set", "null"} /\ (phase[t] = "done" <=> start_ptr[t] = "null")
        /\ (Contains(m_list, t) <=> start_ptr[t] = "set")
    BY <2>1, Zenon DEF ListInv
  <2> QED
    BY <2>2, Zenon
<1> QED
  BY <1>1, ListInit, ListStep, PTL DEF Spec
=============================================================================
