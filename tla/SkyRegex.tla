------------------------------ MODULE SkyRegex ------------------------------
(* src/sky/src/sky_regex.c: match counts, and parse lists, the matches of a  *)
(* regular expression in a text.  Both search again from the end of the last *)
(* match, as if the text began there.  One thread uses a handle.             *)
(*                                                                           *)
(* A regular expression is what is found with it in one text of Length       *)
(* characters without a newline.  regexec(3) finds the longest match at each *)
(* place, and what its groups match; with ^ and at the edges of words that   *)
(* depends on whether the text begins there.  re.findall of Python, which    *)
(* README.md compares parse to, finds the first of the alternatives, and has *)
(* the whole text.  A piece of the text is its two ends.                     *)
(*                                                                           *)
(* A definition named for a fault (PlaceFromText) is a variant of the one    *)
(* that follows it and no action uses it.                                    *)
EXTENDS Integers, Sequences, FiniteSets

CONSTANTS None,
          Length,      \* bound: of the text
          MaxGroups,   \* bound: parentheses in the expression
          EmptyMatch,  \* may an expression match the empty string?
          ShorterFirst,  \* may its first alternative not be the longest?
          MaxMatch,    \* REGEX_MAX_MATCH, 100 in the program
          Memory,      \* bound: memory objects
          Modulus      \* of uint32_t, which match counts in

RegexAssumption ==
    /\ Length \in Nat /\ MaxGroups \in Nat /\ EmptyMatch \in BOOLEAN
    /\ ShorterFirst \in BOOLEAN /\ MaxMatch \in Nat \ {0} /\ Memory \in Nat /\ Modulus \in Nat \ {0}

VARIABLES
    regex,      \* the compiled expression, None when there is no handle
    sub_str,    \* the handle's list: the pieces its nodes copy
    pc, p, match_count,  \* the call: where it searches, its count
    allocated,  \* memory objects in use: two for each piece
    lost,       \* of them, nodes nothing points to
    complete,   \* history: has a parse left out nothing so far?
    matched     \* history: the count of a match that was not cut short, or None

vars == <<regex, sub_str, pc, p, match_count, allocated, lost, complete, matched>>

Place == 0..Length
Ends(s) == (IF EmptyMatch THEN s ELSE s + 1)..Length

\* A match at s: its end, and what each group matches: nothing or all of it.
Found(s, n) == [eo : Ends(s), group : [1..n -> BOOLEAN]]
FoundAt(n) == {f \in [Place -> (UNION {Found(s, n) : s \in Place}) \cup {None}] :
                  \A s \in Place : f[s] # None => f[s].eo \in Ends(s)}

\* What Python finds at s in turn, where m is the longest match: one match, or
\* the empty one and then another.
InTurn(s, n, m) ==
    LET Shorter == {k \in Found(s, n) : k.eo <= m.eo} IN
    IF m = None THEN {<<>>} ELSE IF ~ShorterFirst THEN {<<m>>}
    ELSE {<<k>> : k \in {x \in Shorter : x.eo > s \/ m.eo = s}}
         \cup {<<k, l>> : k \in {x \in Shorter : x.eo = s}, l \in {x \in Shorter : x.eo > s}}

InTurnAt(n, f) == {y \in [Place -> UNION {InTurn(s, n, f[s]) : s \in Place}] :
                      \A s \in Place : y[s] \in InTurn(s, n, f[s])}

\* What regexec finds at the place it is given, where it sees the beginning of a
\* text (first), and at one behind that (at), and what Python finds.
Compiled(n) ==
    UNION {{[nsub |-> n, at |-> f, first |-> g, python |-> y] :
               g \in {h \in FoundAt(n) : h[0] = f[0]}, y \in InTurnAt(n, f)} :
           f \in FoundAt(n)}
Regex == UNION {Compiled(n) : n \in 0..MaxGroups}

Init == /\ regex = None /\ sub_str = <<>> /\ pc = "idle" /\ p = 0 /\ match_count = 0
        /\ allocated = 0 /\ lost = 0 /\ complete = FALSE /\ matched = None
----------------------------------------------------------------------------
(* regexec(3) *)

Piece(s, e) == IF s = e THEN <<>> ELSE <<s, e>>

\* Where a search from q can find a match, and what it finds at s.
At(r, q, s) == IF s = q THEN r.first[s] ELSE r.at[s]
Starts(r, q) == {s \in q..Length : At(r, q, s) # None}
First(S) == CHOOSE s \in S : \A u \in S : s <= u

\* m[ 0 ], m[ 1 ]... up to the first that matched nothing (-1).
Matches(r, q) ==
    LET s == First(Starts(r, q))
        f == At(r, q, s)
        n == CHOOSE k \in 0..r.nsub : /\ \A i \in 1..k : f.group[i]
                                      /\ k < r.nsub => ~f.group[k + 1] IN
    [i \in 1..(IF n + 1 < MaxMatch THEN n + 1 ELSE MaxMatch) |-> Piece(s, f.eo)]

\* p += m[ 0 ].rm_eo: the next search begins where the match ended.
PlaceFromText == At(regex, p, First(Starts(regex, p))).eo - p
NextPlace == At(regex, p, First(Starts(regex, p))).eo

\* regexec may fail for want of memory, which the callers take for no match.
Exhausted == Starts(regex, p) = {}
----------------------------------------------------------------------------
\* A create that fails leaves nothing behind and needs no action.
sky_regex_create ==
    /\ regex = None
    /\ regex' \in Regex
    /\ UNCHANGED <<sub_str, pc, p, match_count, allocated, lost, complete, matched>>

sky_regex_substr_free ==
    sub_str' = <<>> /\ allocated' = allocated - 2 * Len(sub_str)

sky_regex_destroy ==
    /\ regex # None /\ pc = "idle"
    /\ sky_regex_substr_free
    /\ regex' = None /\ complete' = FALSE /\ matched' = None /\ match_count' = 0
    /\ UNCHANGED <<pc, p, lost>>

sky_regex_match ==
    /\ regex # None /\ pc = "idle"
    /\ pc' = "match" /\ p' = 0 /\ match_count' = 0
    /\ UNCHANGED <<regex, sub_str, allocated, lost, complete, matched>>

MatchNext ==
    /\ pc = "match" /\ Starts(regex, p) # {}
    /\ match_count' = (match_count + Len(Matches(regex, p))) % Modulus
    /\ p' = NextPlace
    /\ UNCHANGED <<regex, sub_str, pc, allocated, lost, complete, matched>>

\* The loop ends when regexec answers anything but a match.
MatchReturn ==
    /\ pc = "match"
    /\ pc' = "idle" /\ p' = 0 /\ matched' = IF Exhausted THEN match_count ELSE None
    /\ UNCHANGED <<regex, sub_str, match_count, allocated, lost, complete>>

ParseKeepsList ==
    /\ regex # None /\ pc = "idle"
    /\ pc' = "parse" /\ p' = 0 /\ complete' = TRUE
    /\ UNCHANGED <<regex, sub_str, match_count, allocated, lost, matched>>

\* The list of the last parse is freed, whoever still looks at it.
sky_regex_parse ==
    /\ regex # None /\ pc = "idle"
    /\ sky_regex_substr_free
    /\ pc' = "parse" /\ p' = 0 /\ complete' = TRUE
    /\ UNCHANGED <<regex, match_count, lost, matched>>

\* The first k pieces of a match get their node and string.
Store(m, k, leak) ==
    /\ allocated + 2 * k + leak <= Memory
    /\ allocated' = allocated + 2 * k + leak
    /\ lost' = lost + leak
    /\ sub_str' = sub_str \o SubSeq(m, 1, k)

ParseSkipsByStart ==
    /\ pc = "parse" /\ Starts(regex, p) # {}
    /\ LET m == Matches(regex, p) IN Store(m, Len(m), 0)
    /\ p' = First(Starts(regex, p)) + 1
    /\ UNCHANGED <<regex, pc, match_count, complete, matched>>

ParseNext ==
    /\ pc = "parse" /\ Starts(regex, p) # {}
    /\ LET m == Matches(regex, p) IN Store(m, Len(m), 0)
    /\ p' = NextPlace
    /\ UNCHANGED <<regex, pc, match_count, complete, matched>>

\* No memory: the rest of the match is left out, the search goes on.  A node
\* whose string cannot be had stays allocated.
ParseFails ==
    /\ pc = "parse" /\ Starts(regex, p) # {}
    /\ LET m == Matches(regex, p) IN
          \E k \in 0..(Len(m) - 1), leak \in {0, 1} : Store(m, k, leak)
    /\ p' = NextPlace
    /\ complete' = FALSE
    /\ UNCHANGED <<regex, pc, match_count, matched>>

ParseReturn ==
    /\ pc = "parse"
    /\ pc' = "idle" /\ p' = 0 /\ complete' = (complete /\ Exhausted)
    /\ UNCHANGED <<regex, sub_str, match_count, allocated, lost, matched>>
----------------------------------------------------------------------------
Step == MatchNext \/ MatchReturn \/ ParseNext \/ ParseFails \/ ParseReturn

Next == \/ sky_regex_create \/ sky_regex_destroy \/ sky_regex_match \/ sky_regex_parse
        \/ Step

Spec == Init /\ [][Next]_vars
----------------------------------------------------------------------------
(* Properties *)

\* Every variable has its type, and a search begins inside the text.
TypeOK ==
    /\ regex = None \/ regex.nsub \in 0..MaxGroups
    /\ \A i \in 1..Len(sub_str) : sub_str[i] = <<>> \/ sub_str[i] \in Place \X Place
    /\ pc \in {"idle", "match", "parse"} /\ p \in Place
    /\ match_count \in 0..(Modulus - 1)
    /\ allocated \in 0..Memory /\ lost \in 0..Memory
    /\ complete \in BOOLEAN /\ matched \in 0..(Modulus - 1) \cup {None}

\* All memory is the list of the handle, which one parse frees before it
\* makes the next, and the nodes whose string could not be had.
MemoryAccounted ==
    /\ allocated = 2 * Len(sub_str) + lost
    /\ regex = None => sub_str = <<>>

\* re.findall of Python: the list of its matches in the whole text, of their
\* group if there is one, of the tuple of their groups if there are more.  It
\* looks for the next match where the last one ended, or past an empty one.
Findall(r) ==
    LET Left(q) == {s \in q..Length : r.python[s] # <<>>}
        Group(s, m, i) == IF m.group[i] THEN Piece(s, m.eo) ELSE <<>>
        Item(s, m) == IF r.nsub = 0 THEN Piece(s, m.eo)
                      ELSE IF r.nsub = 1 THEN Group(s, m, 1)
                      ELSE [i \in 1..r.nsub |-> Group(s, m, i)]
        from[q \in 0..(Length + 1)] ==
            IF Left(q) = {} THEN <<>>
            ELSE LET s == First(Left(q))
                     ms == r.python[s]
                     e == ms[Len(ms)].eo IN
                 [i \in 1..Len(ms) |-> Item(s, ms[i])] \o from[IF e > s THEN e ELSE s + 1] IN
    from[0]

\* When a parse has returned and neither an allocation nor regexec failed.
Parsed == regex # None /\ pc = "idle" /\ complete

\* sky_regex_parse gives the list of re.findall, as README.md:19-21 has it.
ParseLikePython == Parsed => sub_str = Findall(regex)

\* It does for an expression without groups, for which it makes no difference
\* where a text begins, and whose first alternative is always the longest: parse
\* lists groups as matches of their own, takes the end of each match for the
\* beginning of a text, and regexec is for the longest match.
ReadAlike(r) ==
    /\ r.nsub = 0 /\ r.first = r.at
    /\ \A s \in Place : r.at[s] # None => r.python[s] = <<r.at[s]>>
ParseIsFindall == Parsed /\ ReadAlike(regex) => sub_str = Findall(regex)

\* match counts what parse lists.
MatchAgrees == Parsed /\ matched # None => matched = Len(sub_str) % Modulus

\* A match and a parse return, unless an expression matches the empty string.
CallReturns == pc # "idle" ~> pc = "idle"
=============================================================================
