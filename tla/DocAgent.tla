------------------------------- MODULE DocAgent -------------------------------
(***************************************************************************)
(* The documentation agent of "update documentation": a rewrite generates  *)
(* every section of the template, a modification those that a request      *)
(* affects; each section has a goroutine of its own and its answers are    *)
(* collected over a buffered channel.  The document is then written and,   *)
(* unless the command is not interactive, reviewed by the user, who may    *)
(* accept it, ask for more changes, or cancel and get the original back.   *)
(*                                                                         *)
(* While an agent runs its tools may write the document too (write_file).  *)
(* A section is abstracted to who wrote it and to how much of the section  *)
(* it stands for; an answer to what the parsing of sections makes of it.   *)
(***************************************************************************)
EXTENDS Naturals, Sequences, FiniteSets

CONSTANTS
    NSections,   \* top-level sections of the template, and of a document nobody modified
    MaxSections, \* bound: top-level sections of a document that is modified
    MaxOuter,    \* GenerationConfig.MaxIterations
    MaxInner,    \* iterations of one workflow
    MaxRounds    \* bound: how often the document is generated or modified

ASSUME DocAgentAssumption ==
    /\ NSections \in Nat \ {0} /\ MaxSections \in Nat /\ NSections <= MaxSections
    /\ MaxOuter \in Nat \ {0} /\ MaxInner \in Nat \ {0} /\ MaxRounds \in Nat \ {0}

VARIABLES
    mode,         \* "rewrite" or "modify"
    interactive,
    pc,           \* of the command
    round,        \* of generation or modification
    job,          \* of this round: a rewrite, a modification of all sections or of some
    file,         \* the document on disk
    backup,       \* originalReadmeContent
    sections,     \* parsed from the document, or those of the template
    affected,     \* sections that are generated or modified in this round
    proc,         \* the goroutine of every section
    channel,      \* results that were sent and not yet received
    results,      \* results in the order of the sections
    outcome,      \* how the command ended
    start,        \* history: the document when the command began
    early,        \* history: a tool wrote the document before the backup
    failed        \* history: sections whose goroutine failed in this round

vars == <<mode, interactive, pc, round, job, file, backup, sections, affected, proc, channel,
          results, outcome, start, early, failed>>
history == <<start, early, failed>>
main == <<mode, interactive, pc, round, job, backup, sections, affected, results, outcome, start,
          early>>

-----------------------------------------------------------------------------
Index == 1..MaxSections

\* "whole" stands for the section with its subsections, and was made from both; "first" is the
\* first section of an answer that has several; "own" was made from the section without its
\* subsections, which it replaces too, and "more" likewise, with further sections behind it.
Extent == {"whole", "first", "own", "more"}
Text == [of : Index, by : {"found", "author", "tool", "generator", "reviser", "placeholder"},
         extent : Extent]
Sections == UNION {[1..n -> Text] : n \in 0..MaxSections}
Document == [there : BOOLEAN, title : BOOLEAN, texts : Sections]

Written(i, who, extent) == [of |-> i, by |-> who, extent |-> extent]
Texts(who, n) == [i \in 1..n |-> Written(i, who, "whole")]

NoDocument == [there |-> FALSE, title |-> FALSE, texts |-> <<>>]
Authored == [there |-> TRUE, title |-> TRUE, texts |-> Texts("author", NSections)]
Torn == [there |-> TRUE, title |-> FALSE, texts |-> <<>>]
ToolDocuments == {Torn, [there |-> TRUE, title |-> TRUE, texts |-> Texts("tool", NSections)]}

\* ParseSections: every heading of the second level begins a section.
Headings(texts) == Len(texts) + Cardinality({i \in DOMAIN texts : texts[i].extent = "more"})
ParseSections(texts) == Texts("found", Headings(texts))

\* What an agent answered: nothing, no more than a title or the note below it, a section,
\* or several headings of the second level or a text before the first.
Answer == {"none", "title", "section", "several"}

Idle == [at |-> "idle", outer |-> 1, inner |-> 1, content |-> "none", best |-> "none"]
Begun(at) == [Idle EXCEPT !.at = at]

\* What a goroutine sends.
Result == [index : Index, error : BOOLEAN, approved : BOOLEAN, content : Answer]
NoResult(i) == [index |-> i, error |-> TRUE, approved |-> FALSE, content |-> "none"]
NoResults == [i \in Index |-> NoResult(i)]

TypeOK ==
    /\ mode \in {"rewrite", "modify"} /\ {interactive, early} \subseteq BOOLEAN
    /\ pc \in {"start", "confirm", "backup", "generate", "analyze", "modify", "write", "review", "done"}
    /\ round \in 0..MaxRounds /\ job \in {"none", "rewrite", "global", "specific"}
    /\ {file, backup, start} \subseteq Document
    /\ sections \in Sections
    /\ affected \subseteq Index /\ failed \subseteq Index
    /\ proc \in [Index -> [at : {"idle", "generator", "critic", "validators", "check", "reviser", "done"},
                           outer : 1..MaxOuter, inner : 1..MaxInner, content : Answer, best : Answer]]
    /\ channel \in UNION {[1..n -> Result] : n \in 0..MaxSections}
    /\ results \in [Index -> Result]
    /\ outcome \in {"none", "accepted", "cancelled", "left", "failed"}

Init ==
    /\ mode \in {"rewrite", "modify"} /\ interactive \in BOOLEAN
    /\ pc = "start" /\ round = 0 /\ job = "none"
    /\ file \in {NoDocument, Authored} /\ start = file
    /\ backup = NoDocument /\ sections = <<>> /\ affected = {}
    /\ proc = [i \in Index |-> Idle] /\ channel = <<>> /\ results = NoResults
    /\ outcome = "none" /\ early = FALSE /\ failed = {}

-----------------------------------------------------------------------------
Goto(where) == pc' = where /\ UNCHANGED outcome
Return(how) == pc' = "done" /\ outcome' = how
Fail == Return("failed")

Selected == UNCHANGED <<mode, interactive, start>>
Goroutines == <<proc, channel>>

\* An agent that runs now has tools; write_file takes any content for the document.
ToolsRun == pc \in {"confirm", "analyze"} \/ \E i \in Index : proc[i].at \in {"generator", "reviser"}

ToolWrites ==
    /\ ToolsRun
    /\ file' \in ToolDocuments
    /\ early' = (early \/ pc = "confirm")
    /\ UNCHANGED <<mode, interactive, pc, round, job, backup, sections, affected, proc, channel,
                   results, outcome, start, failed>>

-----------------------------------------------------------------------------
(***************************************************************************)
(* The beginning of the command.                                           *)
(***************************************************************************)
\* No API key, no file or mode selected; a modification needs a document and a request.
Start ==
    /\ pc = "start"
    /\ \/ Return("left") \/ Fail
       \/ Goto("confirm") /\ (mode = "modify" => file.there)
    /\ UNCHANGED <<round, job, file, backup, sections, affected, results, early, failed, Goroutines>>
    /\ Selected

\* ConfirmInstructionsUnderstood.
Confirm ==
    /\ pc = "confirm"
    /\ Fail \/ Goto("backup")
    /\ UNCHANGED <<round, job, file, backup, sections, affected, results, early, failed, Goroutines>>
    /\ Selected

\* Every goroutine of the sections in work starts at once.
Launch(work, at) ==
    /\ proc' = [i \in Index |-> IF i \in work THEN Begun(at) ELSE Idle]
    /\ affected' = work /\ failed' = {} /\ channel' = <<>> /\ results' = NoResults

\* backupOriginalReadme, then the package and the template are read.
BackupAndGenerate ==
    /\ pc = "backup" /\ mode = "rewrite"
    /\ \/ Fail /\ UNCHANGED <<round, job, backup, sections, affected, results, failed, Goroutines>>
       \/ /\ Goto("generate")
          /\ backup' = file /\ round' = 1 /\ job' = "rewrite"
          /\ sections' = Texts("found", NSections)
          /\ Launch(1..NSections, "generator")
    /\ UNCHANGED <<file, early>> /\ Selected

\* backupOriginalReadme, then the document is parsed: what precedes its first
\* section, the title among it, is in no section.
BackupAndParse ==
    /\ pc = "backup" /\ mode = "modify"
    /\ \/ Fail /\ UNCHANGED <<round, backup, sections>>
       \/ /\ file.texts # <<>> /\ Headings(file.texts) <= MaxSections
          /\ Goto("analyze")
          /\ backup' = file /\ round' = 1 /\ sections' = ParseSections(file.texts)
    /\ UNCHANGED <<job, file, affected, results, early, failed, Goroutines>> /\ Selected

-----------------------------------------------------------------------------
(***************************************************************************)
(* A section is generated: GenerateSectionWithValidationLoop around        *)
(* ExecuteWorkflow.                                                        *)
(***************************************************************************)
\* Sends the result and leaves the wait group.
Send(i, r) ==
    /\ channel' = Append(channel, r)
    /\ proc' = [proc EXCEPT ![i] = Begun("done")]
    /\ failed' = IF r.error THEN failed \cup {i} ELSE failed

SendError(i) == Send(i, NoResult(i))

FinishUnchecked(i, best, approved) ==    \* mutant: an empty section is a result
    Send(i, [index |-> i, error |-> FALSE, approved |-> approved, content |-> best])

\* Without content in any iteration the section has failed.  A title is content.
Finish(i, best, approved) ==
    IF best = "none" THEN SendError(i)
    ELSE Send(i, [index |-> i, error |-> FALSE, approved |-> approved, content |-> best])

NextOuter(i, best) ==
    IF proc[i].outer < MaxOuter
    THEN /\ proc' = [proc EXCEPT ![i] = [Begun("generator") EXCEPT !.outer = proc[i].outer + 1,
                                                                   !.best = best]]
         /\ UNCHANGED <<channel, failed>>
    ELSE Finish(i, best, FALSE)

FailsSilently(i) ==    \* mutant: the goroutine returns without its result
    IF proc[i].best = "none"
    THEN proc' = [proc EXCEPT ![i].at = "idle"] /\ failed' = failed \cup {i} /\ UNCHANGED channel
    ELSE NextOuter(i, proc[i].best)

\* The workflow failed: the next iteration if there is content, else the section fails.
WorkflowFails(i) ==
    IF proc[i].best = "none" THEN SendError(i) ELSE NextOuter(i, proc[i].best)

Moves(i, at) == proc' = [proc EXCEPT ![i].at = at] /\ UNCHANGED <<channel, failed>>

\* Rejected: the generator runs again with the feedback, or the content stays as it is.
NextInner(i) ==
    IF proc[i].inner < MaxInner
    THEN /\ proc' = [proc EXCEPT ![i].at = "generator", ![i].inner = @ + 1]
         /\ UNCHANGED <<channel, failed>>
    ELSE Moves(i, "check")

Generator(i) ==
    /\ proc[i].at = "generator"
    /\ \/ WorkflowFails(i)
       \/ \E answer \in Answer :
            /\ proc' = [proc EXCEPT ![i].at = "critic", ![i].content = answer]
            /\ UNCHANGED <<channel, failed>>
    /\ UNCHANGED <<file, main>>

Critic(i) ==
    /\ proc[i].at = "critic"
    /\ WorkflowFails(i) \/ NextInner(i) \/ Moves(i, "validators")
    /\ UNCHANGED <<file, main>>

\* URLs, static validators and the validators that ask the model.
Validators(i) ==
    /\ proc[i].at = "validators"
    /\ NextInner(i) \/ Moves(i, "check")
    /\ UNCHANGED <<file, main>>

\* The content replaces the best one if that is empty, or if it is longer or as long
\* with more structure; an empty one is neither.
Better(i) ==
    CASE proc[i].best = "none" -> {TRUE}
      [] proc[i].content = "none" -> {FALSE}
      [] OTHER -> BOOLEAN

\* The validators find an issue in the content of this iteration or none; the best one of all
\* is returned.
Check(i) ==
    /\ proc[i].at = "check"
    /\ \E better \in Better(i) :
        LET best == IF better THEN proc[i].content ELSE proc[i].best
        IN  Finish(i, best, TRUE) \/ NextOuter(i, best)
    /\ UNCHANGED <<file, main>>

-----------------------------------------------------------------------------
(***************************************************************************)
(* A modification.                                                         *)
(***************************************************************************)
\* analyzeModificationScope: all sections, or those the answer names; a failed,
\* unreadable or unsure analysis means all.
Analyze ==
    /\ pc = "analyze"
    /\ \/ job' = "global" /\ Launch(DOMAIN sections, "reviser")
       \/ job' = "specific" /\ \E work \in SUBSET DOMAIN sections : Launch(work, "reviser")
    /\ Goto("modify")
    /\ UNCHANGED <<round, file, backup, sections, early>> /\ Selected

\* generateModifiedSection: an agent that fails or reports an error leaves the section.
Revise(i) ==
    /\ proc[i].at = "reviser"
    /\ \/ SendError(i)
       \/ \E answer \in Answer :
            Send(i, [index |-> i, error |-> FALSE, approved |-> FALSE, content |-> answer])
    /\ UNCHANGED <<file, main>>

-----------------------------------------------------------------------------
(***************************************************************************)
(* The results are collected until every goroutine has left the wait       *)
(* group and the channel is closed.                                        *)
(***************************************************************************)
CollectInOrder ==    \* mutant: results are kept in the order they arrive
    /\ pc \in {"generate", "modify"} /\ channel # <<>>
    /\ LET n == Cardinality({i \in affected : proc[i].at = "done"}) - Len(channel) + 1
       IN  results' = [results EXCEPT ![n] = Head(channel)]
    /\ channel' = Tail(channel)
    /\ UNCHANGED <<mode, interactive, pc, round, job, file, backup, sections, affected, proc, outcome,
                   history>>

Collect ==
    /\ pc \in {"generate", "modify"} /\ channel # <<>>
    /\ results' = [results EXCEPT ![Head(channel).index] = Head(channel)]
    /\ channel' = Tail(channel)
    /\ UNCHANGED <<mode, interactive, pc, round, job, file, backup, sections, affected, proc, outcome,
                   history>>

Closed == channel = <<>> /\ \A i \in affected : proc[i].at = "done"

Assemble ==
    /\ pc \in {"generate", "modify"} /\ Closed
    /\ Goto("write")
    /\ UNCHANGED <<round, job, file, backup, sections, affected, results, early, failed, Goroutines>>
    /\ Selected

\* A rewrite strips titles and notes (normalizeSectionContent); whoever finds nothing writes
\* a placeholder.
Writer(answer) ==
    CASE answer = "none" \/ (job = "rewrite" /\ answer = "title") -> "placeholder"
      [] answer # "none" /\ job # "rewrite" -> "reviser"
      [] OTHER -> "generator"

WithoutParsing(answer) ==    \* mutant: the answer for some sections is not parsed again either
    IF answer = "several" THEN "more" ELSE "whole"

\* What is written for all sections alike was made from a section without its subsections, and
\* is not parsed again; else the first section of the answer is all that stays.
ExtentOf(answer) ==
    CASE job = "global" /\ answer # "several" -> "own"
      [] job = "global" /\ answer = "several" -> "more"
      [] job # "global" /\ answer = "several" -> "first"
      [] OTHER -> "whole"

\* The text of a section: what was collected for it, and the old one, with its subsections,
\* for what was not modified.
Assembled(i) ==
    LET r == results[i]
    IN  IF i \in affected /\ (job = "rewrite" \/ ~r.error)
        THEN Written(r.index, Writer(r.content), ExtentOf(r.content))
        ELSE sections[i]

\* Only a rewrite has a title: CombineSectionsWithTitle, CombineSections.
Final == [there |-> TRUE, title |-> job = "rewrite", texts |-> [i \in DOMAIN sections |-> Assembled(i)]]

\* writeDocumentation truncates the file before it writes.
Write ==
    /\ pc = "write"
    /\ \/ /\ file' = Final
          /\ IF interactive THEN Goto("review") ELSE Return("accepted")
       \/ file' \in {file, Torn} /\ Fail
    /\ UNCHANGED <<round, job, backup, sections, affected, results, early, failed, Goroutines>>
    /\ Selected

-----------------------------------------------------------------------------
(***************************************************************************)
(* The review.                                                             *)
(***************************************************************************)
ReviewUnchanged ==
    UNCHANGED <<round, job, backup, affected, results, early, failed, Goroutines>> /\ Selected

\* A prompt that fails ends the command and keeps the document.
PromptFails == pc = "review" /\ Fail /\ UNCHANGED <<file, sections>> /\ ReviewUnchanged

Accept == pc = "review" /\ Return("accepted") /\ UNCHANGED <<file, sections>> /\ ReviewUnchanged

\* restoreOriginalReadme.
Cancel ==
    /\ pc = "review"
    /\ \/ file' = backup /\ Return("cancelled")
       \/ file' \in {file, Torn} /\ Fail
    /\ UNCHANGED sections /\ ReviewUnchanged

\* Cancelling the text of the changes leaves the review and keeps the document.
LeaveChanges == pc = "review" /\ Return("left") /\ UNCHANGED <<file, sections>> /\ ReviewUnchanged

RequestChangesAfterBackup ==    \* mutant: every modification makes a backup
    /\ pc = "review" /\ round < MaxRounds /\ Headings(file.texts) <= MaxSections
    /\ \/ Fail /\ UNCHANGED <<round, sections>>
       \/ /\ Goto("analyze")
          /\ round' = round + 1 /\ sections' = ParseSections(file.texts)
    /\ backup' = file
    /\ UNCHANGED <<job, file, affected, results, early, failed, Goroutines>> /\ Selected

RequestChanges ==
    /\ pc = "review" /\ round < MaxRounds /\ Headings(file.texts) <= MaxSections
    /\ \/ Fail /\ UNCHANGED <<round, sections>>
       \/ /\ Goto("analyze")
          /\ round' = round + 1 /\ sections' = ParseSections(file.texts)
    /\ UNCHANGED <<job, file, backup, affected, results, early, failed, Goroutines>> /\ Selected

Review == PromptFails \/ Accept \/ Cancel \/ LeaveChanges \/ RequestChanges

-----------------------------------------------------------------------------
Section(i) == Generator(i) \/ Critic(i) \/ Validators(i) \/ Check(i) \/ Revise(i)

Command ==
    Start \/ Confirm \/ BackupAndGenerate \/ BackupAndParse \/ Analyze \/ Collect \/ Assemble \/ Write

Next == Command \/ Review \/ ToolWrites \/ \E i \in Index : Section(i)

\* The provider answers or fails, and so does the user.
Fairness ==
    /\ WF_vars(Command) /\ WF_vars(Review)
    /\ \A i \in Index : WF_vars(Section(i))

Spec == Init /\ [][Next]_vars /\ Fairness

-----------------------------------------------------------------------------
(***************************************************************************)
(* Properties.                                                             *)
(***************************************************************************)
\* After a cancelled review the document is what it was, whatever agents and rounds of
\* changes wrote meanwhile, unless a tool wrote it before it was backed up: no agent is
\* left running that could still write it (restoreOriginalReadme, wg.Wait).
CancelRestores ==
    outcome = "cancelled" => file = IF early THEN backup ELSE start

\* In a document that is reviewed the answer of every section's agent is in the place of that
\* section, whichever goroutine ended first; what a modification does not affect, or what its
\* agent failed on, is as it was, with its subsections; and unless all sections are modified
\* alike, an answer was made from a section with its subsections, which it replaces, and adds no
\* section (modifyAllSections, modifySpecificSections).
SectionsAreKept ==
    pc = "review" =>
        /\ Len(file.texts) = Len(sections) /\ \A i \in DOMAIN sections : file.texts[i].of = i
        /\ job # "rewrite" =>
               \A i \in DOMAIN sections : (i \notin affected \/ i \in failed) => file.texts[i] = sections[i]
        /\ job # "global" => \A i \in DOMAIN sections : file.texts[i].extent \notin {"own", "more"}

\* A document that is reported as validated has no section that was not populated, but for
\* those of which the agent gave a title only: the loop takes it for content, and the
\* document does not (GenerateAllSectionsWithValidation, normalizeSectionContent).
Approved == \A i \in DOMAIN sections : results[i].approved
ApprovedIsPopulated ==
    pc = "review" /\ job = "rewrite" /\ Approved =>
        \A i \in DOMAIN sections : file.texts[i].by = "generator" \/ results[i].content = "title"

\* What the user is shown in a review is a whole document, and is what it is said to be.
ReviewedIsWhole == SectionsAreKept /\ ApprovedIsPopulated

\* The command returns: no goroutine leaves the collector waiting.
CommandReturns == <>(pc = "done")
=============================================================================
