---- MODULE SearchIdentity ----
(***************************************************************************)
(* normalize_candidates: how records of one paper from several academic    *)
(* sources become one paper.  Three passes over the candidates, in order:  *)
(* union by a shared exact identifier, union by title, first author and    *)
(* year unless strong identifiers disagree, and version links between a    *)
(* preprint and its publication.  A candidate is a record of identifiers;  *)
(* "title" stands for the fallback key's title and first author, "priority" *)
(* for the rank of its source and then of its abstract.                    *)
(***************************************************************************)
EXTENDS Integers, FiniteSets, FiniteSetsExt, SequencesExt

CONSTANTS Candidates,    \* candidate records a source may return
          ArxivOfDoi,    \* the arXiv identifier inside each arXiv DOI
          MaxCandidates  \* bound: candidates in one snapshot

NoId == "none"

\* Every parser drops an item without the identifier of its source, and
\* canonical_id raises on a record that has none (identifiers.py:100).
ASSUME IdentityAssumption ==
    /\ MaxCandidates \in Nat \ {0}
    /\ NoId \notin DOMAIN ArxivOfDoi
    /\ \A c \in Candidates :
         /\ DOMAIN c = {"doi", "arxiv", "openalex", "semantic", "title", "year", "priority"}
         /\ {c.doi, c.arxiv, c.openalex, c.semantic} # {NoId}

VARIABLES batch,      \* candidates, in the order of their candidate_id
          root,       \* disjoint set: the root of every index
          exact,      \* roots after the exact pass: the clusters of the second one
          pairs,      \* pairs the current pass still has to look at
          pass,       \* "exact", "title", "versions", "done"
          decisions,  \* merge decisions, for the audit
          versionOf   \* version links: paper -> the preferred paper

identityVars == <<batch, root, exact, pairs, pass, decisions, versionOf>>

FormalDoi(d) == d # NoId /\ d \notin DOMAIN ArxivOfDoi
ArxivIdOf(c) ==
    IF c.arxiv = NoId /\ c.doi \in DOMAIN ArxivOfDoi THEN ArxivOfDoi[c.doi] ELSE c.arxiv
IdentityKeys(c) ==
    {k \in {<<"doi", c.doi>>, <<"arxiv", ArxivIdOf(c)>>,
             <<"openalex", c.openalex>>, <<"s2", c.semantic>>} : k[2] # NoId}

\* Combinations of two members of S, and the one the loops come to next.
PairsOf(S) == {p \in S \X S : p[1] < p[2]}
NextPair(P) ==
    LET left == Min({p[1] : p \in P})
    IN  <<left, Min({p[2] : p \in {q \in P : q[1] = left}})>>

\* union(): the larger root is attached to the smaller one.
UnionOfRoots(r, i, j) ==
    [r EXCEPT ![Max({r[i], r[j]})] = Min({r[i], r[j]})]
UnionOf(r, i, j) ==
    [k \in DOMAIN r |-> IF r[k] \in {r[i], r[j]} THEN Min({r[i], r[j]}) ELSE r[k]]

ClusterOf(r, k) == {i \in DOMAIN r : r[i] = k}
ClusterDois(C) == {batch[i].doi : i \in C} \ {NoId}
ClusterArxiv(C) == {ArxivIdOf(batch[i]) : i \in C} \ {NoId}
FormalDois(C) == {d \in ClusterDois(C) : FormalDoi(d)}
Disagree(S, T) == S # {} /\ T # {} /\ S \cap T = {}

StrongConflict(C, D) ==
    \/ Disagree(ClusterDois(C), ClusterDois(D))
    \/ Disagree(ClusterArxiv(C), ClusterArxiv(D))
    \/ FormalDois(C) # {} /\ ClusterArxiv(D) # {}
    \/ FormalDois(D) # {} /\ ClusterArxiv(C) # {}

\* The record a cluster takes its title and year from.
PreferredCandidate(C) ==
    CHOOSE i \in C : \A j \in C :
        \/ batch[j].priority < batch[i].priority
        \/ batch[j].priority = batch[i].priority /\ j <= i
FallbackKey(C) ==
    <<batch[PreferredCandidate(C)].title, batch[PreferredCandidate(C)].year>>

IdentityInit ==
    /\ batch \in SeqOf(Candidates, MaxCandidates)
    /\ root = [i \in DOMAIN batch |-> i]
    /\ exact = root
    /\ pairs = PairsOf(DOMAIN batch)
    /\ pass = "exact"
    /\ decisions = {}
    /\ versionOf = <<>>

Audit(action, C, D) == decisions' = decisions \cup {[action |-> action, left |-> C, right |-> D]}

ExactStep ==
    /\ pass = "exact" /\ pairs # {}
    /\ LET i == NextPair(pairs)[1] j == NextPair(pairs)[2]
           same == IdentityKeys(batch[i]) \cap IdentityKeys(batch[j]) # {}
       IN  IF same /\ root[i] # root[j]
           THEN root' = UnionOf(root, i, j) /\ Audit("merged", {i}, {j})
           ELSE UNCHANGED <<root, decisions>>
    /\ pairs' = pairs \ {NextPair(pairs)}
    /\ UNCHANGED <<batch, exact, pass, versionOf>>

\* clusters = _clusters(...): the second pass works on this snapshot.
ExactEnds ==
    /\ pass = "exact" /\ pairs = {}
    /\ pass' = "title" /\ exact' = root
    /\ pairs' = PairsOf({root[i] : i \in DOMAIN root})
    /\ UNCHANGED <<batch, root, decisions, versionOf>>

TitleStep ==
    /\ pass = "title" /\ pairs # {}
    /\ LET l == NextPair(pairs)[1] r == NextPair(pairs)[2]
           C == ClusterOf(exact, l) D == ClusterOf(exact, r)
       IN  IF root[l] = root[r] \/ FallbackKey(C) # FallbackKey(D)
           THEN UNCHANGED <<root, decisions>>
           ELSE IF StrongConflict(C, D)
           THEN UNCHANGED root /\ Audit("kept_separate", C, D)
           ELSE root' = UnionOf(root, l, r) /\ Audit("merged", C, D)
    /\ pairs' = pairs \ {NextPair(pairs)}
    /\ UNCHANGED <<batch, exact, pass, versionOf>>

\* _paper_from_cluster: identifiers come from the first record that has one.
FirstValue(C, field) ==
    LET known == {i \in C : batch[i][field] # NoId}
    IN  IF known = {} THEN NoId ELSE batch[Min(known)][field]
PaperDoi(C) == FirstValue(C, "doi")
PaperArxiv(C) ==
    IF FirstValue(C, "arxiv") = NoId /\ PaperDoi(C) \in DOMAIN ArxivOfDoi
    THEN ArxivOfDoi[PaperDoi(C)] ELSE FirstValue(C, "arxiv")
\* canonical_id: the DOI, or else the identifier of arXiv, OpenAlex or
\* Semantic Scholar.
CanonicalId(C) ==
    IF PaperDoi(C) # NoId THEN <<"doi", PaperDoi(C)>>
    ELSE IF PaperArxiv(C) # NoId THEN <<"arxiv", PaperArxiv(C)>>
    ELSE IF FirstValue(C, "openalex") # NoId THEN <<"openalex", FirstValue(C, "openalex")>>
    ELSE <<"s2", FirstValue(C, "semantic")>>

PaperRoots == {root[i] : i \in DOMAIN root}
Paper(r) == ClusterOf(root, r)

TitleEnds ==
    /\ pass = "title" /\ pairs = {}
    /\ pass' = "versions"
    /\ versionOf' = [r \in PaperRoots |-> 0]
    /\ pairs' = PairsOf(PaperRoots)
    /\ UNCHANGED <<batch, root, exact, decisions>>

PaperYear(C) == batch[PreferredCandidate(C)].year
VersionMatch(C, D) ==
    /\ FallbackKey(C)[1] = FallbackKey(D)[1]
    /\ PaperYear(C) - PaperYear(D) \in -2..2
    /\ \/ ClusterArxiv(C) # {} /\ FormalDois(D) # {}
       \/ ClusterArxiv(D) # {} /\ FormalDois(C) # {}

IdentityScore(C) ==
    IF FormalDoi(PaperDoi(C)) THEN 4
    ELSE IF PaperDoi(C) # NoId THEN 3
    ELSE IF PaperArxiv(C) # NoId THEN 2 ELSE 1
\* _version_score: identity, year, and then the canonical identifier, whose
\* order the model leaves open.
MayPrefer(C, D) ==
    \/ IdentityScore(C) > IdentityScore(D)
    \/ IdentityScore(C) = IdentityScore(D) /\ PaperYear(C) >= PaperYear(D)

\* The loop runs in the order of the canonical identifiers, here any order; a
\* later link of one paper replaces the earlier one.
VersionStep ==
    /\ pass = "versions" /\ pairs # {}
    /\ \E p \in pairs :
         LET l == p[1] r == p[2]
         IN  /\ pairs' = pairs \ {p}
             /\ IF ~VersionMatch(Paper(l), Paper(r))
                THEN UNCHANGED <<versionOf, decisions>>
                ELSE \E best \in {l, r} :
                       LET other == IF best = l THEN r ELSE l
                       IN  /\ MayPrefer(Paper(best), Paper(other))
                           /\ versionOf' = [versionOf EXCEPT ![other] = best]
                           /\ Audit("version_linked", Paper(other), Paper(best))
    /\ UNCHANGED <<batch, root, exact, pass>>

VersionsEnd ==
    /\ pass = "versions" /\ pairs = {}
    /\ pass' = "done"
    /\ UNCHANGED <<batch, root, exact, pairs, decisions, versionOf>>

IdentityNext == ExactStep \/ ExactEnds \/ TitleStep \/ TitleEnds \/ VersionStep \/ VersionsEnd
IdentitySpec == IdentityInit /\ [][IdentityNext]_identityVars

(***************************************************************************)
(* What the passes promise.                                                *)
(***************************************************************************)
Linked(i, j) ==
    \A S \in SUBSET DOMAIN batch :
        (/\ i \in S
         /\ \A k \in S, l \in DOMAIN batch :
              IdentityKeys(batch[k]) \cap IdentityKeys(batch[l]) # {} => l \in S)
        => j \in S

\* The exact pass puts two records in one cluster exactly when a chain of
\* shared identifiers links them, whatever the order of the records
\* (normalization.py:118, the union-find loop).
ExactPassIsClosure ==
    pass \in {"title", "versions", "done"} =>
        \A i, j \in DOMAIN batch : exact[i] = exact[j] <=> Linked(i, j)

\* Two clusters of the exact pass that the title pass takes for one paper.
Matching(C, D) == FallbackKey(C) = FallbackKey(D) /\ ~StrongConflict(C, D)
Alike(k, l) ==
    exact[k] = exact[l] \/ Matching(ClusterOf(exact, exact[k]), ClusterOf(exact, exact[l]))
Akin(i, j) ==
    \A S \in SUBSET DOMAIN batch :
        (/\ i \in S
         /\ \A k \in S, l \in DOMAIN batch : Alike(k, l) => l \in S)
        => j \in S

\* The title pass joins two of these clusters exactly when a chain of title
\* matches without a conflict links them, in whatever order it comes to the
\* pairs and although it skips those that have met (normalization.py:143-180).
TitlePassIsClosure ==
    pass \in {"versions", "done"} =>
        \A i, j \in DOMAIN batch : root[i] = root[j] <=> Akin(i, j)

\* No two papers share an identifier: a reference by DOI, arXiv or OpenAlex
\* identifier resolves to one paper, and papers_by_id loses none of them
\* (normalization.py:182, a dictionary keyed by the canonical identifier).
PapersAreDistinct ==
    pass \in {"versions", "done"} =>
        /\ \A r, s \in PaperRoots : CanonicalId(Paper(r)) = CanonicalId(Paper(s)) => r = s
        /\ \A i, j \in DOMAIN batch :
             IdentityKeys(batch[i]) \cap IdentityKeys(batch[j]) # {} => root[i] = root[j]

\* What later stages rely on: papers are exactly the chains of shared
\* identifiers and then of title matches, and each identifier names one of them
\* (normalize_candidates, normalization.py:125-260).
PapersAreTheirIdentities == ExactPassIsClosure /\ TitlePassIsClosure /\ PapersAreDistinct

\* "Different independent DOIs are not merged for equal titles" (docs/DATA.md:129):
\* records that no chain of identifiers links stay apart when both have a DOI of
\* a publisher.  The title pass compares the clusters as they were before it
\* (normalization.py:151), so a record without a DOI joins two that have one.
DoisStayApart ==
    pass \in {"versions", "done"} =>
        \A i, j \in DOMAIN batch :
            exact[i] # exact[j] /\ FormalDoi(batch[i].doi) /\ FormalDoi(batch[j].doi)
                => root[i] # root[j]
====
