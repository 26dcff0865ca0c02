--------------------------- MODULE IndexCriteria ---------------------------
(***************************************************************************)
(* The data placement policy (index_criteria.c): how the rule of the user   *)
(* is read, and how a file name is matched with it by the threads that      *)
(* create and open files, who share the patterns prepared for matching.     *)
(*                                                                         *)
(* A rule, a pattern and a name are sequences of characters, an option name *)
(* ("name=", "size=") being one of them; case has been folded.              *)
(***************************************************************************)
EXTENDS Integers, Sequences, FiniteSets

CONSTANTS Rules,    \* the rules a user may give
          Names,    \* file names
          Threads,  \* FUSE threads
          MaxFiles  \* bound: files a thread creates

Options == {"name=", "size="}
Digits == {"0", "1"}
Letters == {"a", "k"}

VARIABLES rule,   \* the rule given
          ic,     \* index_criteria: [state, max, globs]; globs <<>> is NULL
          cache,  \* glob_cache: [id, filled]; id 0 is NULL, filled the entries set
          th      \* what each thread does in index_criteria_match
vars == <<rule, ic, cache, th>>

-----------------------------------------------------------------------------
(* Reading a rule.                                                           *)
ShorterThanOption(s) == Len(s) < 5 /\ \A i \in DOMAIN s : s[i] \notin Options

\* index_criteria_contains_invalid_options: what begins the rule or follows a
\* slash is an option.
ContainsInvalidOptions(s) ==
  \/ ShorterThanOption(s) \/ s[1] \notin Options
  \/ \E i \in DOMAIN s : s[i] = "/" /\ (i = Len(s) \/ s[i + 1] \notin Options)

\* Where the option stands in s.
Uses(s, opt) == {i \in DOMAIN s : s[i] = opt /\ (i = 1 \/ s[i - 1] = "/")}

(* index_criteria_find_option: the first use of the option, as far as the    *)
(* next slash, if what follows does not use it again.                        *)
RECURSIVE FindOption(_, _)
FindOption(s, opt) ==
  LET uses == Uses(s, opt)
  IN  IF ShorterThanOption(s) \/ uses = {} THEN [found |-> FALSE, error |-> FALSE]
      ELSE LET start == CHOOSE i \in uses : \A j \in uses : i <= j
               ends  == {i \in start..Len(s) : s[i] = "/"}
               end   == IF ends = {} THEN Len(s) + 1 ELSE CHOOSE i \in ends : \A j \in ends : i <= j
           IN  IF FindOption(SubSeq(s, end, Len(s)), opt).found
               THEN [found |-> FALSE, error |-> TRUE]
               ELSE [found |-> TRUE, error |-> FALSE, text |-> SubSeq(s, start + 1, end - 1)]

Invalid == [bad |-> TRUE]

\* The value of a string of digits, as far as they go.
Value[s \in Seq(Digits)] ==
  IF s = <<>> THEN 0
  ELSE 10 * Value[SubSeq(s, 1, Len(s) - 1)] + (IF s[Len(s)] = "1" THEN 1 ELSE 0)
DigitsOf(s) ==
  LET stops == {i \in DOMAIN s : s[i] \notin Digits}
  IN  IF stops = {} THEN s ELSE SubSeq(s, 1, (CHOOSE i \in stops : \A j \in stops : i <= j) - 1)

\* A mutation: the letter of the unit is kept without its meaning.
MultiplierIgnored(last) == 1

Multiplier(last) == IF last = "k" THEN 1024 ELSE 1

\* index_criteria_parse_size, on what follows the option. For an empty text the
\* code looks at the byte before the buffer, and refuses it whatever that is.
ParseSize(s) ==
  LET last == IF s = <<>> THEN "none" ELSE s[Len(s)]
      body == IF last \in Letters THEN SubSeq(s, 1, Len(s) - 1) ELSE s
  IN  IF \/ \E i \in 1..Len(s) - 1 : s[i] \in Letters /\ s[i + 1] \in Letters
         \/ last = "a" \/ body = <<>> \/ body[1] \notin Digits
      THEN Invalid
      ELSE [bad |-> FALSE, max |-> Value[DigitsOf(body)] * Multiplier(last)]

\* The parts of s between colons.
Parts(s) ==
  LET colons == {i \in DOMAIN s : s[i] = ":"}
      nth(n) == CHOOSE i \in colons : Cardinality({j \in colons : j < i}) = n - 1
      from(n) == IF n = 1 THEN 1 ELSE nth(n - 1) + 1
      to(n) == IF n > Cardinality(colons) THEN Len(s) ELSE nth(n) - 1
  IN  [n \in 1..Cardinality(colons) + 1 |-> SubSeq(s, from(n), to(n))]

\* The tests of index_criteria_parse_name for an empty name. With nothing behind
\* the option it reads past the terminator; the empty name is refused later.
EmptyName(s) ==
  \/ s = <<>> \/ s[1] = ":"
  \/ \E i \in 2..Len(s) : s[i] = ":" /\ (s[i - 1] = ":" \/ i = Len(s))

ParseName(s) == IF EmptyName(s) THEN Invalid ELSE [bad |-> FALSE, globs |-> Parts(s)]

\* index_criteria_parse.
Parsed(s) ==
  LET name == FindOption(s, "name=")
      size == FindOption(s, "size=")
      globs == IF name.found THEN ParseName(name.text) ELSE [bad |-> FALSE, globs |-> <<>>]
      max   == IF size.found THEN ParseSize(size.text) ELSE [bad |-> name.found, max |-> 0]
  IN  IF ContainsInvalidOptions(s) \/ name.error \/ globs.bad \/ size.error \/ max.bad
      THEN [state |-> "refused", max |-> 0, globs |-> <<>>]
      ELSE [state |-> "set", max |-> max.max, globs |-> globs.globs]

-----------------------------------------------------------------------------
(* _matches_name_criteria_caseless: c and f are the places in the pattern    *)
(* and the name, star says that an asterisk has just been passed, and the    *)
(* stack holds the places to return to.                                      *)
Wild(pat, c, name, f) == pat[c] = "?" \/ pat[c] = name[f]

\* Where the name goes on from when a place is returned to.
Retry(place) == place.f + 1

RECURSIVE Run(_, _, _, _, _, _)
Run(pat, name, c, f, star, stack) ==
  IF c <= Len(pat) /\ pat[c] = "*" THEN c = Len(pat) \/ Run(pat, name, c + 1, f, TRUE, stack)
  ELSE IF c <= Len(pat) /\ f <= Len(name) /\ Wild(pat, c, name, f)
  THEN Run(pat, name, c + 1, f + 1, FALSE,
           \* _push_ustack puts the new place behind the first, dropping what was there
           IF star THEN (IF stack = <<>> THEN stack ELSE <<stack[1]>>) \o <<[c |-> c, f |-> f]>> ELSE stack)
  ELSE IF c <= Len(pat) /\ f <= Len(name) /\ star THEN Run(pat, name, c, f + 1, TRUE, stack)
  ELSE IF c > Len(pat) /\ f > Len(name) THEN TRUE
  ELSE IF stack = <<>> THEN FALSE
  ELSE LET place == stack[Len(stack)]
       IN  Run(pat, name, place.c, Retry(place), TRUE, SubSeq(stack, 1, Len(stack) - 1))

MatchesNameCriteria(pat, name) == IF pat = <<>> THEN name = <<>> ELSE Run(pat, name, 1, 1, FALSE, <<>>)

-----------------------------------------------------------------------------
Idle == [step |-> "idle", name |-> <<>>, i |-> 1, id |-> 0, out |-> FALSE, n |-> 0]

Init ==
  /\ rule \in Rules
  /\ ic = [state |-> "none", max |-> 0, globs |-> <<>>]
  /\ cache = [id |-> 0, filled |-> {}]
  /\ th = [t \in Threads |-> Idle]

\* ltfs_override_policy, before the file system is in use.
OverridePolicy ==
  /\ ic.state = "none"
  /\ ic' = Parsed(rule)
  /\ UNCHANGED <<rule, cache, th>>

\* A file is created or opened for writing: index_criteria_match.
Match(t) ==
  /\ th[t].step \in {"idle", "done"} /\ th[t].n < MaxFiles /\ ic.state = "set"
  /\ \E name \in Names :
       th' = [th EXCEPT ![t] =
         [Idle EXCEPT !.name = name, !.n = th[t].n + 1,
            !.step = IF ic.max = 0 \/ ic.globs = <<>> THEN "done"
                     ELSE IF cache.id = 0 THEN "prepare" ELSE "use",
            !.id = cache.id, !.out = ic.max # 0]]
  /\ UNCHANGED <<rule, ic, cache>>

\* _prepare_glob_cache: an array of NULLs takes the place of the old one, if
\* another thread has made one meanwhile, and is filled pattern by pattern.
Prepare(t) ==
  /\ th[t].step = "prepare"
  /\ cache' = [id |-> cache.id + 1, filled |-> {}]
  /\ th' = [th EXCEPT ![t].step = "fill"]
  /\ UNCHANGED <<rule, ic>>

Fill(t) ==
  /\ th[t].step = "fill"
  /\ cache' = [cache EXCEPT !.filled = @ \cup {th[t].i}]
  /\ th' = IF th[t].i = Len(ic.globs) THEN [th EXCEPT ![t].step = "use", ![t].id = cache.id]
           ELSE [th EXCEPT ![t].i = @ + 1]
  /\ UNCHANGED <<rule, ic>>

\* The patterns are tried as far as the first NULL; an array that another thread
\* has freed can hold anything.
Use(t) ==
  /\ th[t].step = "use"
  /\ \E out \in IF th[t].id # cache.id THEN BOOLEAN
                ELSE {\E i \in DOMAIN ic.globs : /\ 1..i \subseteq cache.filled
                                                 /\ MatchesNameCriteria(ic.globs[i], th[t].name)} :
       th' = [th EXCEPT ![t].step = "done", ![t].out = out]
  /\ UNCHANGED <<rule, ic, cache>>

Next == OverridePolicy \/ \E t \in Threads : Match(t) \/ Prepare(t) \/ Fill(t) \/ Use(t)
Spec == Init /\ [][Next]_vars

-----------------------------------------------------------------------------
(* What a rule means: its clauses are the parts between slashes, one size    *)
(* and at most one list of names in either order.                            *)
Clauses(s) ==
  LET cuts == {0, Len(s) + 1} \cup {i \in DOMAIN s : s[i] = "/"}
      next(i) == CHOOSE j \in cuts : j > i /\ \A k \in cuts : k > i => j <= k
  IN  {SubSeq(s, i + 1, next(i) - 1) : i \in cuts \ {Len(s) + 1}}
ClausesOf(s, opt) == {c \in Clauses(s) : c # <<>> /\ c[1] = opt}

GoodSize(v) ==
  /\ v # <<>> /\ v[1] \in Digits
  /\ \A i \in DOMAIN v : v[i] \in Digits \/ (i = Len(v) /\ v[i] = "k")
GoodNames(v) == \A i \in DOMAIN Parts(v) : Parts(v)[i] # <<>>

WellFormed(s) ==
  /\ \A c \in Clauses(s) : c # <<>> /\ c[1] \in Options
  /\ \E c \in ClausesOf(s, "size=") : ClausesOf(s, "size=") = {c} /\ GoodSize(Tail(c))
  /\ \A c, d \in ClausesOf(s, "name=") : c = d /\ GoodNames(Tail(c))
  /\ \A opt \in Options : Cardinality(Uses(s, opt)) <= 1

RECURSIVE Glob(_, _)
Glob(pat, name) ==
  IF pat = <<>> THEN name = <<>>
  ELSE IF pat[1] = "*" THEN \E k \in 0..Len(name) : Glob(Tail(pat), SubSeq(name, k + 1, Len(name)))
  ELSE name # <<>> /\ pat[1] \in {"?", name[1]} /\ Glob(Tail(pat), Tail(name))

\* A rule in the documented syntax is accepted with the sizes and names it lists;
\* one with an unknown option, an empty name, no size, or an option used twice is
\* refused. (ltfs_override_policy, index_criteria_parse)
PolicyAsWritten ==
  /\ ic.state = "set" /\ WellFormed(rule) =>
       \E c \in ClausesOf(rule, "size=") :
         LET v == Tail(c)
             digits == IF v[Len(v)] = "k" THEN SubSeq(v, 1, Len(v) - 1) ELSE v
             unit == IF v[Len(v)] = "k" THEN 1024 ELSE 1
         IN  /\ ic.max = Value[digits] * unit
             /\ {ic.globs[i] : i \in DOMAIN ic.globs} = UNION {{Parts(Tail(d))[i] : i \in DOMAIN Parts(Tail(d))} : d \in ClausesOf(rule, "name=")}
  /\ ic.state = "refused" => ~WellFormed(rule)
  /\ ic.state = "set" =>
       /\ \A c \in Clauses(rule) : c # <<>> /\ c[1] \in Options
       /\ \A c \in ClausesOf(rule, "name=") : GoodNames(Tail(c)) /\ ClausesOf(rule, "size=") # {}
       /\ \A opt \in Options : Cardinality(Uses(rule, opt)) # 2

\* A file is flagged for the index partition exactly when one of the patterns
\* matches its whole name, whichever asterisk has to give way, and whether this
\* thread has prepared the patterns or found them prepared. (index_criteria.c:546)
PlacedByName ==
  \A t \in Threads :
    th[t].step = "done" =>
      th[t].out = (ic.max # 0 /\ (ic.globs = <<>> \/ \E i \in DOMAIN ic.globs : Glob(ic.globs[i], th[t].name)))
=============================================================================
