---------------------------- MODULE MCIndexerJob ----------------------------
(* The constants of the runs of IndexerJob.                                *)
EXTENDS IndexerJobProperties

Nothing == {}

TextFile ==
  [extension |-> ".txt", type |-> "text/plain", charset |-> "",
   bytes |-> "utf-8", guess |-> Unsure, magic |-> FALSE, pages |-> <<>>]

Plain ==
  [file |-> TextFile, blank |-> FALSE, hidden |-> FALSE, binary |-> FALSE,
   excluded |-> FALSE, included |-> TRUE, dotGit |-> FALSE]

Script == [Plain EXCEPT !.file.extension = ".sh", !.file.bytes = "cut",
                        !.file.type = "application/octet-stream"]
Empty == [Plain EXCEPT !.file.bytes = "empty", !.blank = TRUE]
InDotGithub == [Plain EXCEPT !.dotGit = TRUE]
Excluded == [Plain EXCEPT !.excluded = TRUE]

AllPlain == [p \in Paths |-> Plain]
But(facts) == [p \in Paths |-> IF p = 1 THEN facts ELSE Plain]

Scenario(source, facts, versions, faults) ==
  [source |-> source, pin |-> 0, incremental |-> TRUE,
   credentials |-> IF source = "kusto" THEN "WorkloadIdentity" ELSE "none",
   facts |-> facts, versions |-> versions, faults |-> faults]

GitScenarios ==
  { Scenario("git", AllPlain, 3, {"rag", "kill"}),
    Scenario("git", AllPlain, 2, {"rag", "api", "kill"}),
    Scenario("git", AllPlain, 3, {"api"}),
    Scenario("git", AllPlain, 2, {"clone", "force"}),
    Scenario("git", AllPlain, 3, {"force"}),
    Scenario("git", AllPlain, 3, {"revert"}),
    Scenario("git", But(Excluded), 3, {"revert", "kill"}),
    Scenario("git", AllPlain, 2, {"rag", "writer"}),
    Scenario("git", AllPlain, 2, {"force", "writer"}),
    Scenario("git", But(InDotGithub), 2, {"kill"}),
    Scenario("git", But(Script), 2, {"kill"}),
    Scenario("git", But(Excluded), 2, {"kill"}),
    [Scenario("git", AllPlain, 3, {"force"}) EXCEPT !.pin = 2] }

(* Text of every kind, and PDFs of up to two pages.                        *)
TextFiles ==
  {f \in [extension : Extensions, type : ContentTypes, charset : Charsets,
          bytes : Bytes, guess : Guesses, magic : {FALSE}, pages : {<<>>}] :
     f.extension # ".sh"}

Page(text, tables) == [text |-> text, tables |-> tables]

SomePages ==
  { Page("text", <<>>), Page("fails", << <<<<"word">>>> >>), Page("blank", <<>>),
    Page("blank", << <<<<"None", "">>>>, <<<<" ", "None">>, <<"word">>>> >>),
    Page("blank", << <<<<" ">>>> >>) }

PDFs ==
  [extension : {"", ".pdf", ".txt"}, type : ContentTypes, charset : {""},
   bytes : {"pdf"}, guess : {Unsure}, magic : BOOLEAN,
   pages : {<<>>} \cup {<<p>> : p \in SomePages} \cup {<<p, q>> : p, q \in SomePages}]

FileScenarios ==
  {Scenario("static", But([Plain EXCEPT !.file = f]), 1, Nothing) :
     f \in TextFiles \cup PDFs}

StaticScenarios ==
  { Scenario("static", AllPlain, 2, {"fetch", "rag", "kill", "api"}),
    Scenario("static", But(Empty), 2, {"rag"}),
    Scenario("static", But(Script), 2, {"rag"}) }

KustoScenarios ==
  { Scenario("kusto", AllPlain, 3, {"query", "rag"}),
    Scenario("kusto", AllPlain, 2, {"query", "rag", "api", "kill", "writer"}),
    Scenario("kusto", But(Empty), 3, {"token", "rag"}),
    Scenario("kusto", But(Empty), 3, {"rag", "kill"}),
    [Scenario("kusto", AllPlain, 2, {"rag"}) EXCEPT !.incremental = FALSE],
    [Scenario("kusto", AllPlain, 2, {}) EXCEPT !.credentials = "SecretMissing"] }

MCScenarios == GitScenarios \cup StaticScenarios \cup KustoScenarios
               \cup FileScenarios

(* One file, and nothing that can fail.                                    *)
OneDeletion == {Scenario("git", AllPlain, 2, Nothing)}

OneDocument == {[owner |-> "other", path |-> 1, text |-> 1]}
=============================================================================
