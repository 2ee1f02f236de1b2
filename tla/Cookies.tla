------------------------------- MODULE Cookies -------------------------------
(***************************************************************************)
(* The cookies of src/cookie.go: the list of a request's Cookie header and *)
(* the cookie of a response's Set-Cookie header.  An expiry is the text of *)
(* its date; no text is the zero time.                                     *)
(***************************************************************************)
EXTENDS Bytes

KeyValue(key, value) == [key |-> key, value |-> value]

\* The dates that time.Parse can read.
Dates == {B("Tue, 10 Nov 2009 23:00:00 GMT")}

\* decodeCookieArg; one pair of quotes may be taken off.
DecodeCookieArg(b, skipQuotes) ==
    LET arg == Trim(b, " ")
    IN  IF skipQuotes /\ Len(arg) > 1 /\ Head(arg) = "\"" /\ Last(arg) = "\""
        THEN SubSeq(arg, 2, Len(arg) - 1) ELSE arg

\* A part of a cookie: before the first "=" the key, after it the value.
Part(b) ==
    LET eq == IndexByte(b, "=")
    IN  KeyValue(DecodeCookieArg(Before(b, eq), FALSE), DecodeCookieArg(From(b, eq), TRUE))

\* What cookieScanner.next returns until it returns false: what follows the last
\* ";" counts unless it is empty.
CookieParts(b) ==
    LET pieces == Split(b, ";")
        all    == IF Last(pieces) = <<>> THEN Front(pieces) ELSE pieces
    IN  [i \in DOMAIN all |-> Part(all[i])]

GetCookieKey(b) ==
    DecodeCookieArg(IF IndexByte(b, "=") = 0 THEN b ELSE Before(b, IndexByte(b, "=")), FALSE)
-----------------------------------------------------------------------------
(***************************************************************************)
(* The cookies of a request.                                               *)
(***************************************************************************)
ParseRequestCookies(cookies, b) ==
    cookies \o SelectSeq(CookieParts(b), LAMBDA kv : kv.key # <<>> \/ kv.value # <<>>)

JoinCookies(texts) ==
    FlattenSeq([i \in DOMAIN texts |-> IF i = 1 THEN texts[i] ELSE B("; ") \o texts[i]])

\* Mutant: a cookie without a value is its key.
CookieBytesNoEmpty(cookies) ==
    JoinCookies([i \in DOMAIN cookies |->
        cookies[i].key \o (IF cookies[i].value = <<>> THEN <<>> ELSE <<"=">>) \o cookies[i].value])

\* appendRequestCookieBytes, and appendResponseCookieBytes.
RequestCookieBytes(cookies) ==
    JoinCookies([i \in DOMAIN cookies |->
        (IF cookies[i].key = <<>> THEN <<>> ELSE cookies[i].key \o <<"=">>) \o cookies[i].value])

ResponseCookieBytes(cookies) == JoinCookies([i \in DOMAIN cookies |-> cookies[i].value])
-----------------------------------------------------------------------------
(***************************************************************************)
(* A cookie of a response.                                                 *)
(***************************************************************************)
SameSites   == <<B("Lax"), B("Strict"), B("None")>>
Disabled    == <<>>
DefaultMode == B("default")

ResetCookie == [key |-> <<>>, value |-> <<>>, expire |-> <<>>, maxAge |-> 0, domain |-> <<>>,
                path |-> <<>>, httpOnly |-> FALSE, secure |-> FALSE, sameSite |-> Disabled]

SetSameSite(c, mode) == [c EXCEPT !.sameSite = mode, !.secure = @ \/ mode = B("None")]

\* Cookie.AppendBytes: the age is written in preference to the expiry.
AppendCookie(c) ==
    LET attribute(key, value) == B("; ") \o key \o <<"=">> \o value
        optional(key, value)  == IF value = <<>> THEN <<>> ELSE attribute(key, value)
        flag(key, set)        == IF set THEN B("; ") \o key ELSE <<>>
    IN  RequestCookieBytes(<<KeyValue(c.key, c.value)>>)
        \o (IF c.maxAge > 0 THEN attribute(B("max-age"), AppendUint(c.maxAge))
            ELSE optional(B("expires"), c.expire))
        \o optional(B("domain"), c.domain) \o optional(B("path"), c.path)
        \o flag(B("HttpOnly"), c.httpOnly) \o flag(B("secure"), c.secure)
        \o (CASE c.sameSite = Disabled    -> <<>>
              [] c.sameSite = DefaultMode -> flag(B("SameSite"), TRUE)
              [] OTHER                    -> attribute(B("SameSite"), c.sameSite))

\* What an attribute makes of a cookie: an age or a date that is none is an error;
\* an empty mode is read past its end.
Attribute(r, kv) ==
    LET is(name) == SameButCase(kv.key, B(name))
        flag(name) == kv.key = <<>> /\ SameButCase(kv.value, B(name))
        age == ParseUint(kv.value, IntSize)
        mode == SelectInSeq(SameSites, LAMBDA m : SameButCase(m, kv.value))
    IN  CASE r.state # "ok" -> r
          [] is("max-age") -> IF age.ok THEN [r EXCEPT !.c.maxAge = age.v] ELSE [r EXCEPT !.state = "error"]
          [] is("expires") -> IF kv.value \in Dates THEN [r EXCEPT !.c.expire = kv.value]
                              ELSE [r EXCEPT !.state = "error"]
          [] is("domain")  -> [r EXCEPT !.c.domain = kv.value]
          [] is("path")    -> [r EXCEPT !.c.path = kv.value]
          [] is("SameSite") -> IF kv.value = <<>> THEN [r EXCEPT !.state = "panic"]
                               ELSE IF mode = 0 THEN r ELSE [r EXCEPT !.c.sameSite = SameSites[mode]]
          [] flag("HttpOnly") -> [r EXCEPT !.c.httpOnly = TRUE]
          [] flag("secure")   -> [r EXCEPT !.c.secure = TRUE]
          [] flag("SameSite") -> [r EXCEPT !.c.sameSite = DefaultMode]
          [] OTHER -> r

\* Cookie.ParseBytes.
ParseCookie(b) ==
    LET parts == CookieParts(b)
    IN  IF parts = <<>> THEN [c |-> ResetCookie, state |-> "error"]
        ELSE FoldLeft(Attribute,
                      [c |-> [ResetCookie EXCEPT !.key = parts[1].key, !.value = parts[1].value],
                       state |-> "ok"],
                      Tail(parts))
=============================================================================
