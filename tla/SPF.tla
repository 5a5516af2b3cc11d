-------------------------------- MODULE SPF --------------------------------
(***************************************************************************)
(* VerifySPFHost of lib/smtp/spf: what the domain of a sender says of the  *)
(* address a mail comes from.  Each step looks up the TXT records of one   *)
(* host and evaluates its SPF record, which gives a result or redirects to *)
(* another host.                                                           *)
(*                                                                         *)
(* The DNS is the environment: it may give any answer to any lookup, one   *)
(* that redirects back to a host seen before included.  Of a mechanism ip4 *)
(* or ip6 only whether it contains the address is kept, or that it is an   *)
(* IPv4 address under the name ip6, which is read and fails when used.     *)
(***************************************************************************)
EXTENDS Naturals, Sequences, SequencesExt, FiniteSetsExt

CONSTANTS
    Hosts,        \* hosts that a record may redirect to
    Sender,       \* the host of the sender
    MaxTerms,     \* bound: the terms of the first record
    MaxLater,     \* bound: the terms of a record that was redirected to
    MaxRedirects, \* redirects that are followed (10)
    None          \* not decided yet

\* Assumed by the modules that instantiate this one.
SPFAssumption ==
    /\ Sender \in Hosts
    /\ MaxTerms \in Nat /\ MaxLater \in Nat /\ MaxRedirects \in Nat
    /\ None \notin {"none", "neutral", "pass", "fail", "softfail", "temperror",
                    "permerror", "panic"}

VARIABLES
    host,      \* the host whose records are looked up next
    count,     \* redirects followed
    answer,    \* what the last lookup gave, or None
    result     \* the result, "panic", or None while verifying

vars == <<host, count, answer, result>>

Qualifier == {"+", "-", "~", "?"}

\* A term is a mechanism with a qualifier, a modifier, or text that is neither:
\* an unsupported or malformed mechanism ("bad"), or nothing ("empty", two blanks in
\* a row).
All(q) == [kind |-> "all", q |-> q]
IP(q, contains) == [kind |-> "ip", q |-> q, contains |-> contains]
Redirect(to) == [kind |-> "redirect", to |-> to]
Plain(kind) == [kind |-> kind]
Term == {All(q) : q \in Qualifier}
        \cup {IP(q, contains) : q \in Qualifier, contains \in {"yes", "no", "misfit"}}
        \cup {Redirect(to) : to \in Hosts}
        \cup {Plain(kind) : kind \in {"modifier", "bad", "empty"}}

\* The SPF records among the TXT records of a host: none, several, one with its
\* terms; or the lookup fails, as it does for a host without TXT records.
Answer(max) == [records : {"error", "no", "many"}, terms : {<<>>}]
               \cup [records : {"one"}, terms : BoundedSeq(Term, max)]

Init ==
    /\ host = Sender
    /\ count = 0
    /\ answer = None
    /\ result = None

-----------------------------------------------------------------------------
(* record.go.                                                              *)

\* The terms a record is read into, and how reading it ended.
Parsed(directives, modifiers, outcome) ==
    [directives |-> directives, modifiers |-> modifiers, outcome |-> outcome]

\* Bug: what is right of "all" is read, too.
ReadOn(terms) ==
    Parsed(SelectSeq(terms, LAMBDA t : t.kind \in {"ip", "all"}),
           SelectSeq(terms, LAMBDA t : t.kind \in {"redirect", "modifier"}),
           IF \E i \in DOMAIN terms : terms[i].kind \in {"bad", "empty"}
           THEN "permerror" ELSE "read")

\* What one more term adds.  "all" ends the record and drops the modifiers; a bad
\* mechanism fails; term[0] of an empty term panics.
ReadTerm(so, term) ==
    CASE term.kind \in {"redirect", "modifier"} ->
           Parsed(so.directives, Append(so.modifiers, term), "reading")
      [] term.kind = "ip" -> Parsed(Append(so.directives, term), so.modifiers, "reading")
      [] term.kind = "all" -> Parsed(Append(so.directives, term), <<>>, "read")
      [] term.kind = "bad" -> Parsed(<<>>, <<>>, "permerror")
      [] term.kind = "empty" -> Parsed(<<>>, <<>>, "panic")

\* readRecord goes through the terms from the left.
ReadRecord(terms) ==
    LET Upto[i \in 0 .. Len(terms)] ==
          IF i = 0 THEN Parsed(<<>>, <<>>, "reading")
          ELSE IF Upto[i - 1].outcome # "reading" THEN Upto[i - 1]
          ELSE ReadTerm(Upto[i - 1], terms[i])
    IN  Upto[Len(terms)]

-----------------------------------------------------------------------------
(* spf.go.                                                                 *)

MapQualifierToResult(q) ==
    CASE q = "+" -> "pass" [] q = "-" -> "fail"
      [] q = "~" -> "softfail" [] q = "?" -> "neutral"

\* The directives that end the evaluation.
Deciding(directives) ==
    {i \in DOMAIN directives : directives[i].kind = "all" \/ directives[i].contains # "no"}

DirectiveResult(term) ==
    IF term.kind = "ip" /\ term.contains = "misfit" THEN "permerror"
    ELSE MapQualifierToResult(term.q)

Redirects(modifiers) == {i \in DOMAIN modifiers : modifiers[i].kind = "redirect"}

Final(value) == [result |-> value, to |-> None]
FollowTo(to) == [result |-> None, to |-> to]

\* The evaluation of the record of one host: a result, or the host to go on with.
EvaluateRecord(terms) ==
    LET record == ReadRecord(terms)
        deciding == Deciding(record.directives)
        redirects == Redirects(record.modifiers)
    IN  IF record.outcome \in {"permerror", "panic"} THEN Final(record.outcome)
        ELSE IF deciding # {} THEN Final(DirectiveResult(record.directives[Min(deciding)]))
        ELSE IF redirects # {} THEN FollowTo(record.modifiers[Min(redirects)].to)
        ELSE Final("neutral")

Evaluate(a) ==
    CASE a.records = "error" -> Final("temperror")
      [] a.records = "no" -> Final("none")
      [] a.records = "many" -> Final("permerror")
      [] a.records = "one" -> EvaluateRecord(a.terms)

\* Bug: a redirect is not counted against the limit.
FollowUnlimited(to) ==
    /\ count' = count + 1
    /\ host' = to
    /\ UNCHANGED result

\* Bug: each host starts a count of its own.
FollowAnew(to) ==
    /\ host' = to
    /\ UNCHANGED <<count, result>>

Follow(to) ==
    /\ count' = count + 1
    /\ IF count' > MaxRedirects
       THEN result' = "temperror" /\ UNCHANGED host
       ELSE host' = to /\ UNCHANGED result

\* One call of verifySPFHost.
VerifySPFHost ==
    /\ result = None
    /\ answer' \in Answer(IF count = 0 THEN MaxTerms ELSE MaxLater)
    /\ LET step == Evaluate(answer') IN
       IF step.result = None THEN Follow(step.to)
       ELSE result' = step.result /\ UNCHANGED <<host, count>>

Next == VerifySPFHost

Spec == Init /\ [][Next]_vars

-----------------------------------------------------------------------------
(* Properties.                                                             *)

TypeOK ==
    /\ host \in Hosts
    /\ count \in 0 .. MaxRedirects + 1
    /\ answer # None => answer.terms \in Seq(Term)
    /\ result \in {None, "none", "neutral", "pass", "fail", "softfail", "temperror",
                   "permerror", "panic"}

\* What a record says of an address: a term that cannot be read spoils it, unless an
\* "all" stands left of the term; else the leftmost term that decides does; else
\* the first redirect; else nothing is said.
Meaning(terms) ==
    LET heeded == {i \in DOMAIN terms : \A j \in 1 .. i - 1 : terms[j].kind # "all"}
        First(P(_)) == Min({i \in heeded : P(terms[i])})
        Flawed(t) == t.kind \in {"bad", "empty"}
        Decides(t) == t.kind = "all" \/ (t.kind = "ip" /\ t.contains # "no")
        Refers(t) == t.kind = "redirect"
    IN  CASE \E i \in heeded : Flawed(terms[i]) -> terms[First(Flawed)].kind
          [] \A i \in heeded : ~Flawed(terms[i]) ->
               IF \E i \in heeded : Decides(terms[i]) THEN DirectiveResult(terms[First(Decides)])
               ELSE IF \E i \in heeded : Refers(terms[i]) THEN terms[First(Refers)].to
               ELSE "neutral"

\* Reading a record into two lists, and going through them one after the other, gives
\* what the record says: the result, in particular the pass that the SMTP server
\* takes a mail on, is that of the deciding term of the last record; a redirect was
\* followed to the host it names, because no term of its record decides, and at most
\* MaxRedirects were (readRecord, verifySPFHost).
EvaluatesMeaning ==
    answer # None /\ answer.records = "one" =>
        LET said == Meaning(answer.terms) IN
        \/ said \in {"pass", "fail", "softfail", "neutral", "permerror"} /\ result = said
        \/ said = "bad" /\ result = "permerror"
        \/ said = "empty" /\ result = "panic"
        \/ said \in Hosts /\ result = None /\ host = said /\ count <= MaxRedirects
        \/ said \in Hosts /\ result = "temperror" /\ count > MaxRedirects
=============================================================================
