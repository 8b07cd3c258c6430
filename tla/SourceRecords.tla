---- MODULE SourceRecords ----
(***************************************************************************)
(* From a provider's metadata record to a candidate the plan's cutoff      *)
(* admits: what each source adapter reads from a record, and the date      *)
(* filter that runs on the result.  Days are integers, YearDays to a year. *)
(* A work has the day it was published and the day of its latest version;  *)
(* a record tells some of it, with some precision.                         *)
(***************************************************************************)
EXTENDS Integers

CONSTANTS Days,      \* days on which things happen
          YearDays,  \* days of one year
          Cutoffs    \* request.published_before, or NoDay

ASSUME RecordsAssumption ==
    YearDays \in Nat \ {0} /\ Days \subseteq Nat /\ Cutoffs \subseteq Int

NoDay == -1
YearOf(day) == day \div YearDays
LastDay(year) == year * YearDays + YearDays - 1
Precisions == {"day", "month", "invalid"}

VARIABLES work,       \* the work itself: published, latest, versions
          record,     \* what a source says of it
          request,    \* years and cutoff of the search
          candidate,  \* the adapter's candidate, a set of at most one
          verdict     \* "raw", "skipped", "parsed", "kept", "excluded"

recordsVars == <<work, record, request, candidate, verdict>>

\* A publication record has the version it was found at, or none: only arXiv
\* and some identifiers name one.
RecordsInit ==
    /\ work \in [published : Days, latest : Days, versions : 1..2]
    /\ work.latest >= work.published /\ (work.versions = 1 => work.latest = work.published)
    /\ record \in [source : {"arxiv", "openalex", "crossref", "semantic_scholar"},
                   complete : BOOLEAN, precision : Precisions, onArxiv : BOOLEAN,
                   dated : BOOLEAN]
    /\ request \in {r \in [from : {0, 1}, to : {0, 1}, before : Cutoffs] : r.from <= r.to}
    /\ candidate = {} /\ verdict = "raw"

\* _calendar_date and Crossref's date parts: a complete valid date, or nothing.
CalendarDate(day) == IF record.precision = "day" THEN day ELSE NoDay

Candidate(year, day, version, versionDate, arxiv) ==
    /\ candidate' = {[source |-> record.source, year |-> year, day |-> day,
                      version |-> version, versionDate |-> versionDate, arxiv |-> arxiv]}
    /\ verdict' = "parsed"
Skip == verdict' = "skipped" /\ UNCHANGED candidate

\* The feed dates every entry; the identifier carries the version.
ParseArxiv ==
    /\ record.source = "arxiv" /\ verdict = "raw"
    /\ IF ~record.complete THEN Skip
       ELSE Candidate(YearOf(work.published), CalendarDate(work.published), work.versions,
                      IF record.dated THEN work.latest ELSE NoDay, TRUE)
    /\ UNCHANGED <<work, record, request>>

\* The identifiers may name an arXiv paper, seldom its version.
ParseOpenAlex ==
    /\ record.source = "openalex" /\ verdict = "raw"
    /\ IF ~record.complete THEN Skip
       ELSE Candidate(YearOf(work.published), CalendarDate(work.published), 0, NoDay,
                      record.onArxiv)
    /\ UNCHANGED <<work, record, request>>

\* Only an arXiv DOI names an arXiv paper; a DOI is required.
ParseCrossref ==
    /\ record.source = "crossref" /\ verdict = "raw"
    /\ IF ~record.complete \/ record.precision = "invalid" THEN Skip
       ELSE Candidate(YearOf(work.published), CalendarDate(work.published), 0, NoDay,
                      record.onArxiv)
    /\ UNCHANGED <<work, record, request>>

ParseSemanticScholar ==
    /\ record.source = "semantic_scholar" /\ verdict = "raw"
    /\ IF ~record.complete THEN Skip
       ELSE Candidate(YearOf(work.published), CalendarDate(work.published), 0, NoDay,
                      record.onArxiv)
    /\ UNCHANGED <<work, record, request>>

\* candidate_within_dates: years, then the cutoff; a record with only a year
\* counts as published on its last day.
WithinYears(c) == request.from <= c.year /\ c.year <= request.to
PublishedEarliest(c) == IF c.day = NoDay THEN c.year * YearDays ELSE c.day
Published(c) == IF c.day = NoDay THEN LastDay(c.year) ELSE c.day
VersionIsDated(c) ==
    c.source = "arxiv" =>
        /\ c.version = 1 \/ c.versionDate # NoDay
        /\ c.versionDate <= request.before
WithinDates(c) ==
    /\ WithinYears(c)
    /\ request.before # NoDay => Published(c) <= request.before /\ VersionIsDated(c)

Filter ==
    /\ verdict = "parsed"
    /\ verdict' = IF \A c \in candidate : WithinDates(c) THEN "kept" ELSE "excluded"
    /\ UNCHANGED <<work, record, request, candidate>>

RecordsNext == ParseArxiv \/ ParseOpenAlex \/ ParseCrossref \/ ParseSemanticScholar \/ Filter
RecordsSpec == RecordsInit /\ [][RecordsNext]_recordsVars

(***************************************************************************)
(* What the cutoff promises.                                               *)
(***************************************************************************)
\* A record is kept only when it proves that the work, and an arXiv entry's
\* version, existed by the cutoff, however imprecise its dates are
\* (providers.py:79).
KeptIsProvable ==
    verdict = "kept" /\ request.before # NoDay =>
        /\ work.published <= request.before
        /\ record.source = "arxiv" => work.latest <= request.before
====
