------------------------------- MODULE Opportunity -------------------------------
(***************************************************************************)
(* The deterministic part of an import: the rows of the files, which of    *)
(* them stand for a keyword, the rules, and the preliminary score.         *)
(* Scores are in hundredths of a point, weights in per cent, money in      *)
(* dollars; a keyword is a sequence of tokens, as normalizePhrase leaves   *)
(* it, and each lexicon is represented by some of its terms.               *)
(***************************************************************************)
EXTENDS Integers, Sequences, FiniteSets, SequencesExt

Least(a, b) == IF a < b THEN a ELSE b
Clamp(x, low, high) == IF x < low THEN low ELSE IF x > high THEN high ELSE x
\* Math.round of a quotient that is not negative.
RoundDiv(a, b) == (2 * a + b) \div (2 * b)

-----------------------------------------------------------------------------
(***************************************************************************)
(* The files.  A row has so many empty lines before it, so many of them    *)
(* leading its raw text (all or none, as csv-parse may do either), so many *)
(* line breaks inside its quotes, a keyword and a word of the field that   *)
(* may be wrong: "" for a missing field, "text" for one that is no number. *)
(***************************************************************************)

\* csv-parse: the line at which the n-th record of the rows ends, the headers
\* being on the first.
EndLine(rows, n) ==
    FoldLeft(LAMBDA line, r : line + r.blank + r.breaks + 1, 1, SubSeq(rows, 1, n))

\* A bug for the mutants: the record is where it ends.
EndingLine(file, n) == EndLine(file.rows, n)

\* startingLine: where the raw text of the record begins.
StartingLine(file, n) == EndLine(file.rows, n) - file.rows[n].leading - file.rows[n].breaks

\* The two lines of the standard preamble are cut off before the parse.
SourceLineOffset(file) == IF file.preamble THEN 2 ELSE 0

RequiredValue(row) == row.field # ""
ParsesNumber(row) == row.field # "text"

MapRow(file, n) == [keyword |-> file.rows[n].keyword,
                    line |-> StartingLine(file, n) + SourceLineOffset(file)]

\* Whether parseOpportunityFinderCsv accepts the file.
Accepts(file, maxRows) ==
    /\ file.name # "" /\ file.headersComplete
    /\ Len(file.rows) <= maxRows
    /\ \A n \in 1..Len(file.rows) : RequiredValue(file.rows[n]) /\ ParsesNumber(file.rows[n])

ParseFile(file) == [n \in 1..Len(file.rows) |-> MapRow(file, n)]

\* validateFile and prepareUploadFiles: sizes in units of the limit of a file.
ValidFile(f, limit) == f.csv /\ f.size <= limit /\ f.size > 0 /\ f.plainName
UploadAccepted(uploads, limit, total, count) ==
    /\ Len(uploads) \in 1..count
    /\ FoldLeft(LAMBDA sum, f : sum + f.size, 0, uploads) <= total
    /\ \A n \in 1..Len(uploads) : ValidFile(uploads[n], limit)

\* The submission does not depend on the order of the selection.
SubmissionHash(uploads) == {<<uploads[n].name, uploads[n].size>> : n \in 1..Len(uploads)}

\* requireFiles
FilesRequired(files) == /\ files # <<>>
                        /\ \A n \in 1..Len(files) : files[n].name # ""
                        /\ IsInjective([n \in 1..Len(files) |-> files[n].name])

\* A bug for the mutants: every file has its own representatives.
FirstInFile(rows, n) ==
    {m \in 1..n - 1 : rows[m].keyword = rows[n].keyword /\ rows[m].file = rows[n].file}

\* The rows before the n-th that are of the same keyword.
Earlier(rows, n) == {m \in 1..n - 1 : rows[m].keyword = rows[n].keyword}

SourceRows(files) ==
    FlattenSeq([f \in 1..Len(files) |->
        [n \in 1..Len(files[f].rows) |->
            [file |-> f, keyword |-> ParseFile(files[f])[n].keyword,
             line |-> ParseFile(files[f])[n].line]]])

\* prepareRows: a row refers to the first of its keyword, 0 if that is itself.
PrepareRows(files) ==
    LET rows == SourceRows(files) IN
    [n \in 1..Len(rows) |->
        [file |-> rows[n].file, line |-> rows[n].line, keyword |-> rows[n].keyword,
         duplicateOf |-> IF Earlier(rows, n) = {} THEN 0
                         ELSE CHOOSE m \in Earlier(rows, n) :
                                \A o \in Earlier(rows, n) : m <= o]]

\* The identity of a raw row: run, source, line.
RawKey(row) == <<row.file, row.line>>
\* The identities derived from a candidate: run, keyword.
CandidateKey(row) == row.keyword

Representatives(rows) == SelectSeq(rows, LAMBDA r : r.duplicateOf = 0)

\* The counts that runImportJob reports, of rows of which some pass.
ImportCounts(rows, passing) ==
    LET unique == Representatives(rows)
        rejected == Len(SelectSeq(unique, LAMBDA r : r \notin passing)) IN
    [total |-> Len(rows), unique |-> Len(unique), duplicate |-> Len(rows) - Len(unique),
     rejected |-> rejected, accepted |-> Len(unique) - rejected]

-----------------------------------------------------------------------------
(***************************************************************************)
(* evaluateOpportunityRules                                                *)
(***************************************************************************)

Lexicon == [ELECTRIC_OR_BATTERY |-> {<<"cordless">>, <<"usb", "powered">>},
            SEASONALITY_HIGH |-> {<<"halloween">>, <<"7th", "birthday">>},
            BRAND_OR_IP |-> {<<"disney">>, <<"star", "wars">>},
            BROAD_SHOPPING_INTENT |-> {<<"best", "sellers">>},
            FRAGILE_OR_HEAVY_RISK |-> {<<"glass">>},
            IRRELEVANT_SUBDOMAIN |-> {<<"for", "dogs">>}]
FoodContactTerms == {<<"utensil">>}

\* A term matches as whole tokens, one after the other.
MatchedTerms(keyword, terms) == {t \in terms : t \in SubSeqs(keyword)}

DefaultRules == [minimumPrice |-> 15, maximumPrice |-> 80, allowHighSeasonality |-> FALSE]

\* A bug for the mutants: the bounds themselves are out of range.
StrictRange(price, rules) == price > rules.minimumPrice /\ price < rules.maximumPrice
InRange(price, rules) == price >= rules.minimumPrice /\ price <= rules.maximumPrice

HighSeasonality == {"High", "Very High"}

RuleReasons(row, rules) ==
    {c \in DOMAIN Lexicon : /\ MatchedTerms(row.keyword, Lexicon[c]) # {}
                            /\ c = "SEASONALITY_HIGH" => ~rules.allowHighSeasonality}
    \cup (IF ~rules.allowHighSeasonality /\ row.seasonality \in HighSeasonality
          THEN {"SEASONALITY_HIGH"} ELSE {})
    \cup (IF InRange(row.price, rules) THEN {} ELSE {"PRICE_OUT_OF_RANGE"})

RuleEvaluation(row, rules) ==
    [passed |-> RuleReasons(row, rules) = {}, reasons |-> RuleReasons(row, rules),
     flags |-> IF MatchedTerms(row.keyword, FoodContactTerms) # {}
               THEN {"FOOD_CONTACT"} ELSE {}]

-----------------------------------------------------------------------------
(***************************************************************************)
(* scorePreliminaryOpportunity                                             *)
(***************************************************************************)

Weights == [jsNicheScore |-> 25, competition |-> 25, demand |-> 20,
            trend |-> 10, priceFit |-> 10, seasonality |-> 10]

Rank == <<"Very Low", "Low", "Medium", "High", "Very High">>
CompetitionScore(c) == <<10000, 8000, 5500, 2500, 0>>[CHOOSE n \in 1..5 : Rank[n] = c]
SeasonalityScore(s) == <<10000, 8000, 5500, 2000, 0>>[CHOOSE n \in 1..5 : Rank[n] = s]

\* A bug for the mutants: the scale of prices begins above the range.
FitFromSixteen(p) == p >= 16 /\ p <= 80
FitsPrice(p) == p >= 15 /\ p <= 80

PriceFitScore(p) ==
    CASE ~FitsPrice(p) -> 0
      [] FitsPrice(p) /\ p < 25 -> 6000 + (p - 15) * 400
      [] p >= 25 /\ p <= 50 -> 10000
      [] OTHER -> 10000 - RoundDiv((p - 50) * 4000, 30)

\* Units and searches in twelfths of a hundredth, an upper bound at three
\* quarters of its value.
DemandScore(row) ==
    LET units == Least(120000, row.units * 40)
        search == Least(120000, row.volume * (IF row.isUpperBound THEN 18 ELSE 24)) IN
    RoundDiv(units + search, 24)

TrendScore(row) == Clamp(5000 + (row.trend30 + row.trend90) * 50, 0, 10000)

RawScore(row) ==
    [jsNicheScore |-> row.nicheScore * 1000, competition |-> CompetitionScore(row.competition),
     demand |-> DemandScore(row), trend |-> TrendScore(row),
     priceFit |-> PriceFitScore(row.price), seasonality |-> SeasonalityScore(row.seasonality)]

WeightedScore(row) == [c \in DOMAIN Weights |-> RoundDiv(RawScore(row)[c] * Weights[c], 100)]

PreliminaryScore(row) ==
    FoldFunction(LAMBDA x, y : x + y, 0, WeightedScore(row))

\* The state a candidate begins in.
CandidateState(row) ==
    IF RuleEvaluation(row, DefaultRules).passed THEN "AI Screening" ELSE "Reject"
=============================================================================
