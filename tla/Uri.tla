--------------------------------- MODULE Uri ---------------------------------
(***************************************************************************)
(* URI of src/uri.go: parsing, the normal form of paths, the full form and *)
(* updates.  The limiter asks for the path of a request with it.           *)
(***************************************************************************)
EXTENDS Query

Slash      == B("/")
SlashSlash == B("//")
SchemeEnd  == B("://")
Http       == B("http")

Control == {Char[n] : n \in (0 .. 31) \cup {127}}

ResetURI == [scheme |-> <<>>, host |-> <<>>, username |-> <<>>, password |-> <<>>,
             pathOriginal |-> <<>>, path |-> <<>>, queryString |-> <<>>, hash |-> <<>>,
             queryArgs |-> <<>>, parsedQueryArgs |-> FALSE, DisablePathNormalizing |-> FALSE]
-----------------------------------------------------------------------------
(***************************************************************************)
(* Paths.                                                                  *)
(***************************************************************************)
\* b without what is from position i on and before position j, from 1.
Cut(b, i, j) == Before(b, i) \o From(b, j - 1)

\* One pass of a loop of normalizePath, and all of its passes.  A loop ends before it
\* has made as many passes as there are bytes.
DropSlash(b) ==
    LET n == Index(b, SlashSlash) IN IF n = 0 THEN b ELSE Cut(b, n, n + 1)

DropDot(b) ==
    LET n == Index(b, B("/./")) IN IF n = 0 THEN b ELSE Cut(b, n, n + 2)

\* Mutant: the name before "/../" is kept.
DropDotsOnly(b) ==
    LET n == Index(b, B("/../")) IN IF n = 0 THEN b ELSE Cut(b, n, n + 3)

DropDotDot(b) ==
    LET n  == Index(b, B("/../"))
        nn == LastIndexByte(Before(b, n), "/")
    IN  IF n = 0 THEN b ELSE Cut(b, IF nn = 0 THEN 1 ELSE nn, n + 3)

DropSlashes(b) == FoldLeft(LAMBDA p, c : DropSlash(p), b, b)
DropDots(b)    == FoldLeft(LAMBDA p, c : DropDot(p), b, b)
DropDotDots(b) == FoldLeft(LAMBDA p, c : DropDotDot(p), b, b)

\* The end of a path: "/foo/.." is "/".
DropLast(b) ==
    LET n  == LastIndex(b, B("/.."))
        nn == LastIndexByte(Before(b, n), "/")
    IN  IF n = 0 \/ n + 2 # Len(b) THEN b
        ELSE IF nn = 0 THEN Slash ELSE SubSeq(b, 1, nn)

NormalizePath(b) ==
    LET slash   == IF b = <<>> \/ Head(b) # "/" THEN Slash ELSE <<>>
        decoded == slash \o Unquoted(b, FALSE)
    IN  DropLast(DropDotDots(DropDots(DropSlashes(decoded))))

Path(u) == IF u.path = <<>> THEN Slash ELSE u.path
SetPath(u, path) == [u EXCEPT !.pathOriginal = path, !.path = NormalizePath(path)]
-----------------------------------------------------------------------------
(***************************************************************************)
(* Parsing.                                                                *)
(***************************************************************************)
\* splitHostURI: <<scheme, host, uri>>.  A host ends at the first "/", or at a "?"
\* before it.
SplitHostURI(host, uri) ==
    LET n      == Index(uri, SlashSlash)
        scheme == Before(uri, n)
        rest   == From(uri, n + 1)
        end    == SelectInSeq(rest, LAMBDA c : c \in {"/", "?"})
    IN  IF n = 0 \/ IndexByte(scheme, "/") # 0 THEN <<Http, host, uri>>
        ELSE << IF scheme # <<>> /\ Last(scheme) = ":" THEN Front(scheme) ELSE scheme,
                IF end = 0 THEN rest ELSE Before(rest, end),
                IF end = 0 THEN Slash ELSE From(rest, end - 1) >>

\* What precedes c in b, or all of b; and what follows c.
UpTo(b, c)  == IF IndexByte(b, c) = 0 THEN b ELSE Before(b, IndexByte(b, c))
After(b, c) == IF IndexByte(b, c) = 0 THEN <<>> ELSE From(b, IndexByte(b, c))

\* parse on the two parts: "user:password@host", and "path?query#hash", where a "?"
\* in the hash is no query.
ParseParts(scheme, host, uri) ==
    LET auth  == IF IndexByte(host, "@") = 0 THEN <<>> ELSE UpTo(host, "@")
        local == UpTo(uri, "#")
    IN  [SetPath(ResetURI, UpTo(local, "?")) EXCEPT
            !.scheme = Lowercase(scheme),
            !.host = Lowercase(IF IndexByte(host, "@") = 0 THEN host ELSE After(host, "@")),
            !.username = UpTo(auth, ":"), !.password = After(auth, ":"),
            !.queryString = After(local, "?"), !.hash = After(uri, "#")]

\* Parse, and with isTLS parse.
ParseURI(host, uri, isTLS) ==
    LET split == IF host = <<>> \/ Index(uri, SchemeEnd) # 0 THEN SplitHostURI(host, uri)
                 ELSE << <<>>, host, uri >>
    IN  IF \E i \in DOMAIN uri : uri[i] \in Control THEN [u |-> ResetURI, ok |-> FALSE]
        ELSE [u |-> ParseParts(IF isTLS THEN B("https") ELSE split[1], split[2], split[3]),
              ok |-> TRUE]
-----------------------------------------------------------------------------
(***************************************************************************)
(* The arguments of the query, parsed when they are first asked for.       *)
(***************************************************************************)
SetQueryString(u, b) == [u EXCEPT !.queryString = b, !.parsedQueryArgs = FALSE]

ParseQueryArgs(u) ==
    IF u.parsedQueryArgs THEN u
    ELSE [u EXCEPT !.queryArgs = ParseArgs(u.queryString), !.parsedQueryArgs = TRUE]
-----------------------------------------------------------------------------
(***************************************************************************)
(* The full form.                                                          *)
(***************************************************************************)
\* Mutant: the path is written as it was decoded.
URIDecoded(u) ==
    Path(u) \o (IF u.queryString = <<>> THEN <<>> ELSE <<"?">> \o u.queryString)

URIRequest(u) ==
    LET path  == IF u.DisablePathNormalizing THEN u.pathOriginal ELSE QuotedPath(Path(u))
        query == IF u.parsedQueryArgs /\ u.queryArgs # <<>> THEN AppendArgs(u.queryArgs)
                 ELSE u.queryString
    IN  path \o (IF query = <<>> THEN <<>> ELSE <<"?">> \o query)

SchemeHost(u) == (IF u.scheme = <<>> THEN Http ELSE u.scheme) \o SchemeEnd \o u.host

FullURI(u) ==
    SchemeHost(u) \o URIRequest(u) \o (IF u.hash = <<>> THEN <<>> ELSE <<"#">> \o u.hash)
-----------------------------------------------------------------------------
\* Mutant: a URI without host is taken for one with host.
UpdateAsIs(u, new) == ParseURI(u.host, new, FALSE).u

\* UpdateBytes.  "//" anywhere makes the new URI absolute; it may want a scheme.
InheritScheme(u, new) ==
    IF new.ok /\ new.u.scheme = <<>> THEN [new.u EXCEPT !.scheme = u.scheme] ELSE new.u

Update(u, new) ==
    LET dir == SubSeq(Path(u), 1, LastIndexByte(Path(u), "/"))
    IN  IF new = <<>> THEN u
        ELSE IF Index(new, SlashSlash) # 0 THEN InheritScheme(u, ParseURI(<<>>, new, FALSE))
        ELSE CASE Head(new) = "/" -> ParseURI(<<>>, SchemeHost(u) \o new, FALSE).u
               [] Head(new) = "?" -> SetQueryString(u, Tail(new))
               [] Head(new) = "#" -> [u EXCEPT !.hash = Tail(new)]
               [] OTHER -> ParseURI(<<>>, SchemeHost(u) \o QuotedPath(dir) \o new, FALSE).u
=============================================================================
