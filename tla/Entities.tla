------------------------------ MODULE Entities ------------------------------
(***************************************************************************)
(* Which row of the datasource a question names: the live lookup ladder    *)
(* (app/semantic/entity_values.py) and the matcher that decides whether    *)
(* one row, several or none is meant (app/semantic/entities.py).           *)
(*                                                                         *)
(* A text is a sequence of tokens, the maximal runs of word characters and *)
(* hyphens, in lower case. What depends on the characters of a token is    *)
(* given by the constants.                                                 *)
(***************************************************************************)
EXTENDS Integers, Sequences, FiniteSets, Functions

CONSTANTS
    ByLength,      \* the tokens, longest first
    Norm,          \* normalize_value: token -> its words
    Short,         \* tokens of fewer than three characters
    Identifiers,   \* tokens of three or more characters, one of them a digit
    Heads,         \* words of four or more characters
    StartOf,       \* <<s, t>>: token s is a proper prefix of token t
    EndOf,         \* <<s, t>>: token s is a proper suffix of token t
    PartOf,        \* <<s, t>>: token s occurs within token t
    Similar,       \* <<u, v>>: unequal word sequences of similarity 0.82 or more
    MaxTerms,      \* 8, of _search_terms
    MaxCandidates  \* MAX_ENTITY_CANDIDATES and the LIMIT of a lookup

(* The places of the words of the first n tokens of a text. *)
Places(text, n) == UNION {{k} \X DOMAIN Norm[text[k]] : k \in 1..n}

(* normalize_value: the words of each token in turn. *)
Words(text) ==
    LET before(k) == Cardinality(Places(text, k - 1))
    IN  [n \in 1..Cardinality(Places(text, Len(text))) |->
            LET k == CHOOSE k \in DOMAIN text : n - before(k) \in DOMAIN Norm[text[k]]
            IN  Norm[text[k]][n - before(k)]]

Window(text, start, width) ==
    SubSeq(text, start, IF start + width - 1 > Len(text) THEN Len(text) ELSE start + width - 1)

(* The first n of some positions, and the first element of a sequence that differs. *)
Foremost(n, positions) == {i \in positions : Cardinality({j \in positions : j < i}) < n}

FirstBut(seq, none) ==
    IF \A i \in DOMAIN seq : seq[i] = none THEN none
    ELSE seq[CHOOSE i \in DOMAIN seq : seq[i] # none /\ \A j \in 1..(i - 1) : seq[j] = none]

(* _contains_word *)
ContainsWord(words, value) ==
    \E i \in 1..(Len(words) - Len(value) + 1) : Window(words, i, Len(value)) = value

-----------------------------------------------------------------------------
(* The reviewed model: entities of [name, table, confirmed] and a sequence of
   attributes [entity, column, identifier, label, confirmed]; allowed maps the
   tables the caller may read to their columns. *)

(* entity_lookup_bindings: the first key and the first display column of every
   confirmed entity of which the caller may read both. *)
Bindings(entities, attributes, allowed, concept) ==
    UNION {LET usable == {i \in DOMAIN attributes : /\ attributes[i].confirmed
                                                    /\ attributes[i].entity = e.name
                                                    /\ attributes[i].column \in allowed[e.table]}
               keys == {i \in usable : attributes[i].identifier}
               labels == {i \in usable : ~attributes[i].identifier /\ attributes[i].label}
           IN {[entity |-> e.name, key |-> attributes[k].column, display |-> attributes[d].column] :
                 k \in Foremost(1, keys), d \in Foremost(1, labels)} :
           e \in {x \in entities : /\ x.confirmed
                                   /\ x.table \in DOMAIN allowed
                                   /\ concept \in {"any", x.name}}}

-----------------------------------------------------------------------------
(* The live lookup *)

(* What _search_terms considers: the question, its endings, the single tokens,
   then all its windows. *)
Fragments(text) ==
    LET n == Len(text)
        widest == IF n < 4 THEN n ELSE 4
        windows(width) == [i \in 1..(n - width + 1) |-> SubSeq(text, i, i + width - 1)]
    IN  <<text>> \o [i \in 1..(widest - 1) |-> SubSeq(text, n - (widest - i), n)]
          \o [i \in DOMAIN ByLength |-> <<ByLength[i]>>]
          \o windows(4) \o windows(3) \o windows(2) \o windows(1)

TooShort(fragment) == fragment = <<>> \/ (Len(fragment) = 1 /\ fragment[1] \in Short)

(* _search_terms: the first MaxTerms of them, each once, by their positions. *)
SearchTerms(text) ==
    LET fragments == Fragments(text)
        kept == {i \in DOMAIN fragments : /\ Range(fragments[i]) \subseteq Range(text)
                                          /\ ~TooShort(fragments[i])
                                          /\ \A j \in 1..(i - 1) : fragments[j] # fragments[i]}
    IN  [i \in Foremost(MaxTerms, kept) |-> fragments[i]]

BeginsWith(s, t) == s = t \/ <<s, t>> \in StartOf
EndsWith(s, t) == s = t \/ <<s, t>> \in EndOf

(* The four predicates of _lookup_attempts over [key, display]. LIKE knows no
   words: a term may begin and end inside a word of the label. *)
Satisfies(row, strategy, term) ==
    LET n == Len(term)
    IN CASE strategy = "canonical" -> term = <<row.key>>
         [] strategy = "exact" -> term = row.display
         [] strategy = "prefix" -> /\ n <= Len(row.display)
                                   /\ \A k \in 1..(n - 1) : term[k] = row.display[k]
                                   /\ BeginsWith(term[n], row.display[n])
         [] strategy = "within" ->
              \E i \in 0..(Len(row.display) - n) :
                 IF n = 1 THEN term[1] = row.display[i + 1] \/ <<term[1], row.display[i + 1]>> \in PartOf
                 ELSE /\ EndsWith(term[1], row.display[i + 1])
                      /\ \A k \in 2..(n - 1) : term[k] = row.display[i + k]
                      /\ BeginsWith(term[n], row.display[i + n])

Strategies == <<"canonical", "exact", "prefix", "within">>

(* The rows that answer, by position: those of the first attempt that finds any,
   a strategy at a time (_lookup_attempts). *)
Answering(rows, text) ==
    LET terms == SearchTerms(text)
        found(a) == {r \in DOMAIN rows : Satisfies(rows[r], Strategies[a[1]], terms[a[2]])}
        hits == {a \in (1..4) \X DOMAIN terms : found(a) # {}}
        first == CHOOSE a \in hits :
                    \A b \in hits : a[1] < b[1] \/ (a[1] = b[1] /\ a[2] <= b[2])
    IN  IF hits = {} THEN {} ELSE found(first)

(* _lookup: with the LIMIT of _lookup_sql, whose rows are in the order of their keys. *)
Lookup(rows, text) == {rows[r] : r \in Foremost(MaxCandidates, Answering(rows, text))}

-----------------------------------------------------------------------------
(* The matcher *)

(* _score *)
Scores(strategy, question, value) ==
    CASE strategy = "canonical" -> /\ Len(value) = 1 /\ value[1] \in Identifiers
                                   /\ ContainsWord(question, value)
      [] strategy = "exact" -> ContainsWord(question, value)
      [] strategy = "prefix" -> value[1] \in Heads /\ ContainsWord(question, <<value[1]>>)
      [] strategy = "fuzzy" -> \E i \in DOMAIN question :
                                 <<Window(question, i, Len(value)), value>> \in Similar

(* What the question is held against: a row's key, or else its label. *)
NamedBy(strategy, question, row) ==
    Scores(strategy, question, IF strategy = "canonical" THEN Norm[row.key] ELSE Words(row.display))

(* A slip: of several labels that begin with the word, one is taken. *)
MatchCandidates_OneByItsHead(strategy, question, candidates) ==
    LET matching == {c \in candidates : NamedBy(strategy, question, c)}
    IN IF strategy = "prefix" /\ matching # {} THEN {CHOOSE c \in matching : TRUE} ELSE matching

(* _match_candidates: a candidate is its entity, its key and its label. *)
MatchCandidates(strategy, question, candidates) ==
    {c \in candidates : NamedBy(strategy, question, c)}

Ladder == <<"canonical", "exact", "prefix", "fuzzy">>

(* resolve_candidates: the first strategy that matches decides; of its
   matches only whether there is one matters. *)
ResolveCandidates(text, candidates) ==
    FirstBut([i \in DOMAIN Ladder |-> MatchCandidates(Ladder[i], Words(text), candidates)], {})

(* DatabaseEntityValueGateway.resolve: data maps an entity to its rows by key. *)
ResolveLive(text, bindings, data) ==
    ResolveCandidates(text, UNION {{[entity |-> b.entity, key |-> r.key, display |-> r.display] :
                                      r \in Lookup(data[b.entity], text)} : b \in bindings})

-----------------------------------------------------------------------------
(* The sampled values (EntityResolver.resolve), which a deployment without a
   reviewed model goes by: the values of the columns in scope, one per label
   and column. *)
ResolveSampled(text, values) ==
    FirstBut([i \in DOMAIN Ladder |->
                 {v \in values : Scores(Ladder[i], Words(text), Words(v))}], {})

-----------------------------------------------------------------------------
(* A row is of a confirmed entity whose table the caller may read and whose key
   and label were both reviewed and are both readable. *)
Reviewed(c, entities, attributes, allowed) ==
    \E e \in entities :
       /\ e.confirmed /\ e.name = c.entity /\ e.table \in DOMAIN allowed
       /\ \A identifier \in BOOLEAN : \E i \in DOMAIN attributes :
            LET a == attributes[i]
            IN /\ a.entity = e.name /\ a.confirmed /\ a.identifier = identifier
               /\ a.column \in allowed[e.table]

(* The question contains its key, its label or the label's first word, or
   nearly spells the label. *)
Called(c, question) ==
    \/ ContainsWord(question, Norm[c.key])
    \/ ContainsWord(question, <<Words(c.display)[1]>>)
    \/ \E i \in DOMAIN question :
         <<Window(question, i, Len(Words(c.display))), Words(c.display)>> \in Similar

(* More rows answer than a lookup may return: the rest are not seen. *)
CutOff(rows, text) == Cardinality(Answering(rows, text)) > MaxCandidates

(* The question names no other row that the lookups found as well or better,
   by its key, by its label, by the label's first word or nearly, of whatever
   entity. *)
NamedBest(c, text, bindings, data) ==
    \E rung \in DOMAIN Ladder :
       /\ NamedBy(Ladder[rung], Words(text), c)
       /\ \A b \in bindings : \A r \in Answering(data[b.entity], text) :
            LET row == data[b.entity][r]
            IN \/ c = [entity |-> b.entity, key |-> row.key, display |-> row.display]
               \/ \A k \in 1..rung : ~NamedBy(Ladder[k], Words(text), row)
               \/ CutOff(data[b.entity], text)

(* No other row of its table, found or not, carries its label, unless its key
   is spelled out. *)
AloneUnderItsLabel(c, text, rows) ==
    \/ \A r \in Range(rows) : r.display = c.display => r.key = c.key
    \/ ContainsWord(Words(text), Norm[c.key])
    \/ CutOff(rows, text)

(* A row is taken for the one a question names only if it is reviewed and
   readable, called by the question, named better than any other that was
   found, and alone under its label (entity_values.py:58-176,
   entities.py:335-404, 497-528). *)
ResolvesToTheOne(text, entities, attributes, allowed, data) ==
    LET bindings == Bindings(entities, attributes, allowed, "any")
        found == ResolveLive(text, bindings, data)
    IN \A c \in found : found = {c} =>
            /\ Reviewed(c, entities, attributes, allowed)
            /\ Called(c, Words(text))
            /\ NamedBest(c, text, bindings, data)
            /\ AloneUnderItsLabel(c, text, data[c.entity])

(* Live lookup and sampled values share one ambiguity policy
   (entities.py:342-345) as far as the lookup asks: when the samples of a table
   leave one label, named whole by the question and among the terms looked
   up, the live candidates are exactly the rows of that label, unless a term
   is the key of some row.  Samples have no keys, so that a label which reads
   like an identifier is taken for one: then the two may differ. *)
AgreesWithSamples(text, rows) ==
    LET terms == Range(SearchTerms(text))
        labels == {rows[i].display : i \in DOMAIN rows}
        live == ResolveCandidates(text, Lookup(rows, text))
    IN \A label \in labels :
          /\ ResolveSampled(text, labels) = {label}
          /\ ContainsWord(Words(text), Words(label)) /\ label \in terms
          /\ \A i \in DOMAIN rows : <<rows[i].key>> \notin terms
          /\ \A other \in labels : ~Scores("canonical", Words(text), Words(other))
          => {c.display : c \in live} = {label}

(* An identifier quoted verbatim finds its row: PRJ-14 and a UUID are the
   examples of the comment at entities.py:505. *)
IdentifierResolves(text, rows) ==
    \A i \in DOMAIN rows :
        rows[i].key \in Identifiers /\ <<rows[i].key>> \in Range(SearchTerms(text))
            => rows[i] \in ResolveCandidates(text, Lookup(rows, text))
=============================================================================
