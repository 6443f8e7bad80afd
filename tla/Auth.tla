-------------------------------- MODULE Auth --------------------------------
(***************************************************************************)
(* The way of the credentials from 'auth' of a location in the config to   *)
(* the relay (internal/pkg/auth/auther.go, DecodeJSONAuth of               *)
(* internal/pkg/util/util.go): they are decoded, kept, encoded anew for    *)
(* each call of the relay, and decoded by it.                              *)
(***************************************************************************)
EXTENDS Integers, Sequences

\* The characters that make a difference: the colon ends the user name in
\* simple credentials, the percent sign means something to Sprintf, and the
\* quote to JSON, as a backslash or a control character does.
Characters == {"x", ":", "%", "quote"}

\* 'auth': left out, 'none', not in base64, or credentials in one of two forms,
\* user:password or JSON
AuthValue == [form : {"absent", "none", "garbled", "text", "json"},
              user : Seq(Characters), pass : Seq(Characters)]

Contains(s, c) == \E k \in 1 .. Len(s) : s[k] = c
Has(a, c) == Contains(a.user, c) \/ Contains(a.pass, c)
Joined(user, pass) == user \o <<":">> \o pass

\* Credentials by what they contain, and how Auth() will encode them. A
\* definition whose name ends in _ and a word is a mutant of the definition that
\* follows it: the bug the word is about, which the properties must be able to
\* tell from the code.
Decode_BasicAuth(a) == [user |-> a.user, pass |-> a.pass, auther |-> "BasicAuth"]
Decode(a) ==
    [user |-> a.user, pass |-> a.pass,
     auther |-> IF a.form = "json" THEN "BasicAuthJSON" ELSE "BasicAuth"]

Empty(creds) == creds.user = <<>> /\ creds.pass = <<>>

\* Sprintf(s): with nothing to format, a percent sign takes the character that
\* follows it, for which something else is put; only two in a row make one.
Step(printed, c) ==
    IF printed.verb
    THEN [out |-> Append(printed.out, IF c = "%" THEN "%" ELSE "missing"),
          verb |-> FALSE, broken |-> printed.broken \/ c = "quote"]
    ELSE [out |-> IF c = "%" THEN printed.out ELSE Append(printed.out, c),
          verb |-> c = "%", broken |-> printed.broken \/ c = "quote"]
Printed(s) ==
    LET upTo[k \in 0 .. Len(s)] ==
            IF k = 0 THEN [out |-> <<>>, verb |-> FALSE, broken |-> FALSE]
                     ELSE Step(upTo[k - 1], s[k])
    IN upTo[Len(s)]

\* What is left by BasicAuthJSON can be parsed again unless user name or
\* password contain a quote, or take the one that ends them for a verb.
Parses(printed) == ~printed.broken /\ ~printed.verb

\* What the relay works with when the credentials are encoded by Auth() and
\* decoded by DecodeJSONAuth(), nothing if it cannot decode them
Passed(creds) ==
    LET user == Printed(creds.user)
        pass == Printed(creds.pass)
    IN IF Empty(creds) \/ creds.auther = "BasicAuth"
          \/ ~Parses(user) \/ ~Parses(pass)
       THEN <<>>
       ELSE Joined(user.out, pass.out)
=============================================================================
