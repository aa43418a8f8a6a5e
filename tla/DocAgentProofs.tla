---------------------------- MODULE DocAgentProofs -----------------------------
(***************************************************************************)
(* Theorems about DocAgent, for any number of sections, iterations and     *)
(* rounds.                                                                 *)
(***************************************************************************)
EXTENDS DocAgent, FiniteSetTheorems, TLAPS

Before == {"start", "confirm", "backup"}
Working == {"generate", "analyze", "modify", "write", "review"}

Running(i) == proc[i].at \notin {"idle", "done"}

\* Goroutines run while the command collects what they send, and only for the sections in work.
Phases ==
    /\ \A i \in Index : Running(i) => pc \in {"generate", "modify"}
    /\ \A i \in Index : i \notin affected => proc[i].at = "idle"
    /\ outcome # "none" <=> pc = "done"

\* The backup is the document the command found, unless a tool was earlier.
Original ==
    /\ pc \in Before /\ ~early => file = start
    /\ pc \in Working \/ outcome = "cancelled" => (~early => backup = start)
    /\ outcome = "cancelled" => file = backup

\* The sections of a document are in their places, and a rewrite works on all of them.
InOrder(texts) == \A i \in DOMAIN texts : texts[i].of = i
Parsed(texts) == \A i \in DOMAIN texts : texts[i].extent \notin {"own", "more"}
Rewritten == pc \in {"generate", "modify", "write", "review"} /\ job = "rewrite"
Documents ==
    /\ InOrder(sections) /\ Parsed(sections)
    /\ Rewritten => affected = DOMAIN sections

\* The results that were sent for section i and not yet received.
Sent(i) == {k \in DOMAIN channel : channel[k].index = i}

\* A goroutine sends one result, its last act; one that has failed sends no other.
Results ==
    /\ \A i \in Index : results[i].index = i
    /\ \A i \in Index : proc[i].at # "done" => results[i].error /\ Sent(i) = {}
    /\ \A j, k \in DOMAIN channel : channel[j].index = channel[k].index => j = k
    /\ \A i \in failed : proc[i].at = "done" /\ results[i].error /\ \A k \in Sent(i) : channel[k].error

\* What is approved is not empty.
Populated ==
    /\ \A i \in Index : results[i].approved => results[i].content # "none"
    /\ \A k \in DOMAIN channel : channel[k].approved => channel[k].content # "none"

IInv ==
    /\ TypeOK /\ Phases /\ Original /\ Documents /\ Results /\ Populated
    /\ SectionsAreKept /\ ApprovedIsPopulated

-----------------------------------------------------------------------------
(***************************************************************************)
(* Types.                                                                  *)
(***************************************************************************)
Goroutine == [at : {"idle", "generator", "critic", "validators", "check", "reviser", "done"},
              outer : 1..MaxOuter, inner : 1..MaxInner, content : Answer, best : Answer]
Channels == UNION {[1..n -> Result] : n \in 0..MaxSections}

\* Where a goroutine begins.
LEMMA BegunType ==
    ASSUME NEW at \in {"idle", "generator", "reviser", "done"}
    PROVE  Begun(at) \in Goroutine /\ Begun(at).at = at /\ Idle \in Goroutine /\ Idle.at = "idle"
<1>1. 1 \in 1..MaxOuter /\ 1 \in 1..MaxInner /\ "none" \in Answer
  BY DocAgentAssumption DEF Answer
<1> QED
  BY <1>1 DEF Begun, Idle, Goroutine

\* A section that has failed has no content.
LEMMA NoResultType ==
    ASSUME NEW i \in Index
    PROVE  NoResult(i) \in Result /\ NoResult(i).index = i /\ NoResult(i).error
           /\ ~NoResult(i).approved
BY DEF NoResult, Result, Answer

\* No sections are sections, and so is one text for each of the first numbers.
LEMMA SectionsAre ==
    /\ <<>> \in Sections
    /\ \A n \in 0..MaxSections : \A texts \in [1..n -> Text] : texts \in Sections
    /\ \A texts \in Sections :
          /\ texts \in Seq(Text) /\ Len(texts) \in 0..MaxSections
          /\ DOMAIN texts = 1..Len(texts) /\ DOMAIN texts \subseteq Index
          /\ texts \in [DOMAIN texts -> Text]
<1>1. <<>> \in [1..0 -> Text] /\ 0 \in 0..MaxSections
  BY DocAgentAssumption
<1>2. ASSUME NEW texts \in Sections
      PROVE  /\ texts \in Seq(Text) /\ Len(texts) \in 0..MaxSections
             /\ DOMAIN texts = 1..Len(texts) /\ DOMAIN texts \subseteq Index
             /\ texts \in [DOMAIN texts -> Text]
  <2>1. PICK n \in 0..MaxSections : texts \in [1..n -> Text]
    BY DEF Sections
  <2>2. n \in Nat /\ n <= MaxSections /\ MaxSections \in Nat
    BY DocAgentAssumption
  <2>3. texts \in Seq(Text) /\ Len(texts) = n /\ DOMAIN texts = 1..n
    BY <2>1, <2>2
  <2> QED
    BY <2>1, <2>2, <2>3 DEF Index
<1> QED
  BY <1>1, <1>2 DEF Sections

\* The texts that somebody wrote, or that were found.
LEMMA TextsType ==
    ASSUME NEW who \in {"found", "author", "tool"}, NEW n \in 0..MaxSections
    PROVE  /\ Texts(who, n) \in Sections
           /\ InOrder(Texts(who, n)) /\ Parsed(Texts(who, n))
           /\ DOMAIN Texts(who, n) = 1..n
<1>1. Texts(who, n) \in [1..n -> Text]
  BY DocAgentAssumption DEF Texts, Written, Text, Extent, Index
<1>2. InOrder(Texts(who, n)) /\ Parsed(Texts(who, n)) /\ DOMAIN Texts(who, n) = 1..n
  BY DEF Texts, Written, InOrder, Parsed
<1> QED
  BY <1>1, <1>2, SectionsAre

\* What is parsed is in order.
LEMMA ParsedType ==
    ASSUME NEW texts \in Sections, Headings(texts) <= MaxSections
    PROVE  /\ ParseSections(texts) \in Sections
           /\ InOrder(ParseSections(texts)) /\ Parsed(ParseSections(texts))
<1> DEFINE many == {i \in DOMAIN texts : texts[i].extent = "more"}
<1>1. Len(texts) \in Nat /\ DOMAIN texts = 1..Len(texts)
  BY SectionsAre, DocAgentAssumption
<1>2. IsFiniteSet(1..Len(texts))
  BY <1>1, FS_Interval
<1>3. many \subseteq 1..Len(texts)
  BY <1>1
<1> HIDE DEF many
<1>4. Cardinality(many) \in Nat
  BY <1>2, <1>3, FS_Subset, FS_CardinalityType
<1>5. Headings(texts) = Len(texts) + Cardinality(many)
  BY DEF Headings, many
<1>6. Headings(texts) \in 0..MaxSections
  BY <1>1, <1>4, <1>5, DocAgentAssumption
<1> QED
  BY <1>6, TextsType DEF ParseSections

\* What the document is, or a tool makes of it.
LEMMA DocumentsType ==
    {NoDocument, Authored, Torn} \subseteq Document /\ ToolDocuments \subseteq Document
<1>1. NSections \in 0..MaxSections
  BY DocAgentAssumption
<1>2. Texts("author", NSections) \in Sections /\ Texts("tool", NSections) \in Sections
  BY <1>1, TextsType
<1>3. <<>> \in Sections
  BY SectionsAre
<1> QED
  BY <1>2, <1>3 DEF Document, NoDocument, Authored, Torn, ToolDocuments

\* The type invariant with the sets of this module.
Types ==
    /\ mode \in {"rewrite", "modify"} /\ interactive \in BOOLEAN /\ early \in BOOLEAN
    /\ pc \in Before \cup Working \cup {"done"}
    /\ round \in 0..MaxRounds /\ job \in {"none", "rewrite", "global", "specific"}
    /\ file \in Document /\ backup \in Document /\ start \in Document
    /\ sections \in Sections
    /\ affected \subseteq Index /\ failed \subseteq Index
    /\ proc \in [Index -> Goroutine] /\ channel \in Channels
    /\ results \in [Index -> Result]
    /\ outcome \in {"none", "accepted", "cancelled", "left", "failed"}

\* It is the type invariant.
LEMMA TypeSets == (TypeOK <=> Types) /\ (TypeOK' <=> Types')
BY DEF TypeOK, Types, Before, Working, Goroutine, Channels

\* A channel is a sequence that has room for a result of every section.
LEMMA ChannelsAre ==
    /\ \A c \in Channels : c \in Seq(Result) /\ Len(c) <= MaxSections
    /\ \A c \in Seq(Result) : Len(c) <= MaxSections => c \in Channels
    /\ <<>> \in Channels
<1>1. ASSUME NEW c \in Channels PROVE c \in Seq(Result) /\ Len(c) <= MaxSections
  <2>1. PICK n \in 0..MaxSections : c \in [1..n -> Result]
    BY DEF Channels
  <2> QED
    BY <2>1, DocAgentAssumption
<1>2. ASSUME NEW c \in Seq(Result), Len(c) <= MaxSections PROVE c \in Channels
  <2>1. c \in [1..Len(c) -> Result] /\ Len(c) \in 0..MaxSections
    BY <1>2, DocAgentAssumption
  <2> QED
    BY <2>1 DEF Channels
<1>3. <<>> \in Seq(Result) /\ Len(<<>>) = 0
  OBVIOUS
<1>4. Len(<<>>) <= MaxSections
  BY <1>3, DocAgentAssumption
<1> QED
  BY <1>1, <1>2, <1>3, <1>4, Zenon

-----------------------------------------------------------------------------
(***************************************************************************)
(* The goroutines.                                                         *)
(***************************************************************************)
\* A goroutine goes on.
Moved(i) ==
    /\ \E p \in Goroutine : p.at \notin {"idle", "done"} /\ proc' = [proc EXCEPT ![i] = p]
    /\ UNCHANGED <<channel, failed>>

\* A goroutine sends what it has: what is approved is not empty.
Sends(i) ==
    \E r \in Result : r.index = i /\ (r.approved => r.content # "none") /\ Send(i, r)

\* The end of a goroutine.
LEMMA FinishSends ==
    ASSUME NEW i \in Index, NEW best \in Answer, NEW approved \in BOOLEAN, Finish(i, best, approved)
    PROVE  Sends(i)
<1>1. CASE best = "none"
  BY <1>1, NoResultType DEF Finish, SendError, Sends
<1>2. CASE best # "none"
  <2> DEFINE r == [index |-> i, error |-> FALSE, approved |-> approved, content |-> best]
  <2>1. r \in Result /\ r.index = i /\ (r.approved => r.content # "none")
    BY <1>2 DEF Result
  <2> QED
    BY <1>2, <2>1 DEF Finish, Sends
<1> QED
  BY <1>1, <1>2

\* The next iteration, or the end.
LEMMA NextOuterCases ==
    ASSUME TypeOK, NEW i \in Index, NEW best \in Answer, NextOuter(i, best)
    PROVE  Moved(i) \/ Sends(i)
<1>1. CASE proc[i].outer < MaxOuter
  <2> DEFINE p == [Begun("generator") EXCEPT !.outer = proc[i].outer + 1, !.best = best]
  <2>1. proc[i].outer + 1 \in 1..MaxOuter
    BY <1>1, TypeSets, DocAgentAssumption DEF Types, Goroutine
  <2>2. Begun("generator") \in Goroutine /\ Begun("generator").at = "generator"
    BY BegunType
  <2>3. p \in Goroutine /\ p.at = "generator"
    BY <2>1, <2>2 DEF Goroutine
  <2> QED
    BY <1>1, <2>3 DEF NextOuter, Moved
<1>2. CASE ~(proc[i].outer < MaxOuter)
  BY <1>2, FinishSends DEF NextOuter
<1> QED
  BY <1>1, <1>2

\* A workflow that fails.
LEMMA WorkflowFailsCases ==
    ASSUME TypeOK, NEW i \in Index, WorkflowFails(i)
    PROVE  Moved(i) \/ Sends(i)
<1>1. proc[i].best \in Answer
  BY TypeSets DEF Types, Goroutine
<1>2. CASE proc[i].best = "none"
  BY <1>2, NoResultType DEF WorkflowFails, SendError, Sends
<1>3. CASE proc[i].best # "none"
  BY <1>1, <1>3, NextOuterCases DEF WorkflowFails
<1> QED
  BY <1>2, <1>3

\* A goroutine goes to its next agent, or from one iteration to the next.
LEMMA MovesCases ==
    ASSUME TypeOK, NEW i \in Index,
           (\E at \in {"validators", "check"} : Moves(i, at)) \/ NextInner(i)
    PROVE  Moved(i)
<1>1. proc \in [Index -> Goroutine] /\ proc[i] \in Goroutine
  BY TypeSets DEF Types
<1>2. ASSUME NEW at \in {"validators", "check"}, Moves(i, at)
      PROVE  Moved(i)
  <2> DEFINE p == [proc[i] EXCEPT !.at = at]
  <2>1. p \in Goroutine /\ p.at = at /\ proc' = [proc EXCEPT ![i] = p]
    BY <1>1, <1>2 DEF Goroutine, Moves
  <2> QED
    BY <1>2, <2>1 DEF Moves, Moved
<1>3. CASE NextInner(i) /\ proc[i].inner < MaxInner
  <2> DEFINE p == [proc[i] EXCEPT !.at = "generator", !.inner = proc[i].inner + 1]
  <2>1. proc[i].inner + 1 \in 1..MaxInner
    BY <1>1, <1>3, DocAgentAssumption DEF Goroutine
  <2>2. p \in Goroutine /\ p.at = "generator"
    BY <1>1, <2>1 DEF Goroutine
  <2>3. proc' = [proc EXCEPT ![i] = p]
    BY <1>1, <1>3 DEF NextInner, Goroutine
  <2> QED
    BY <1>3, <2>2, <2>3 DEF NextInner, Moved
<1>4. CASE NextInner(i) /\ ~(proc[i].inner < MaxInner)
  BY <1>2, <1>4 DEF NextInner
<1> QED
  BY <1>2, <1>3, <1>4

\* A step of a goroutine that runs is one of these, and touches nothing of the command.
LEMMA SectionCases ==
    ASSUME TypeOK, NEW i \in Index, Section(i)
    PROVE  Running(i) /\ (Moved(i) \/ Sends(i)) /\ UNCHANGED <<file, main>>
<1>1. proc[i] \in Goroutine /\ proc \in [Index -> Goroutine]
  BY TypeSets DEF Types
<1>2. CASE Generator(i)
  <2>1. CASE WorkflowFails(i)
    BY <1>2, <2>1, WorkflowFailsCases DEF Generator, Running
  <2>2. CASE \E answer \in Answer :
               /\ proc' = [proc EXCEPT ![i].at = "critic", ![i].content = answer]
               /\ UNCHANGED <<channel, failed>>
    <3>1. PICK answer \in Answer : proc' = [proc EXCEPT ![i].at = "critic", ![i].content = answer]
      BY <2>2
    <3> DEFINE p == [proc[i] EXCEPT !.at = "critic", !.content = answer]
    <3>2. p \in Goroutine /\ p.at = "critic"
      BY <1>1 DEF Goroutine
    <3>3. proc' = [proc EXCEPT ![i] = p]
      BY <1>1, <3>1 DEF Goroutine
    <3> QED
      BY <1>2, <2>2, <3>2, <3>3 DEF Generator, Running, Moved
  <2> QED
    BY <1>2, <2>1, <2>2 DEF Generator
<1>3. CASE Critic(i)
  BY <1>3, WorkflowFailsCases, MovesCases DEF Critic, Running
<1>4. CASE Validators(i)
  BY <1>4, MovesCases DEF Validators, Running
<1>5. CASE Check(i)
  <2>1. PICK best \in Answer : Finish(i, best, TRUE) \/ NextOuter(i, best)
    BY <1>1, <1>5 DEF Check, Goroutine
  <2> QED
    BY <1>5, <2>1, FinishSends, NextOuterCases DEF Check, Running
<1>6. CASE Revise(i)
  <2>1. CASE SendError(i)
    BY <1>6, <2>1, NoResultType DEF Revise, SendError, Sends, Running
  <2>2. CASE \E answer \in Answer :
               Send(i, [index |-> i, error |-> FALSE, approved |-> FALSE, content |-> answer])
    <3>1. \A answer \in Answer :
             [index |-> i, error |-> FALSE, approved |-> FALSE, content |-> answer] \in Result
      BY DEF Result
    <3> QED
      BY <1>6, <2>2, <3>1 DEF Revise, Sends, Running
  <2> QED
    BY <1>6, <2>1, <2>2 DEF Revise
<1> QED
  BY <1>2, <1>3, <1>4, <1>5, <1>6 DEF Section

\* Results of different sections fit into the channel: no goroutine waits to send.
LEMMA ChannelHasRoom ==
    ASSUME NEW c \in Seq(Result), \A j, k \in DOMAIN c : c[j].index = c[k].index => j = k
    PROVE  c \in Channels
<1> DEFINE n == Len(c)
           f == [k \in 1..n |-> c[k].index]
<1>1. n \in Nat /\ DOMAIN c = 1..n /\ f \in [1..n -> Index]
  <2>1. \A k \in 1..n : c[k] \in Result
    OBVIOUS
  <2>2. \A k \in 1..n : c[k].index \in Index
    BY <2>1 DEF Result
  <2> QED
    BY <2>2
<1>2. f \in Injection(1..n, Index)
  BY <1>1 DEF Injection, IsInjective
<1>3. IsFiniteSet(Index) /\ Cardinality(Index) = MaxSections
  BY FS_Interval, DocAgentAssumption DEF Index
<1> HIDE DEF n, f
<1>4. Cardinality(1..n) <= Cardinality(Index)
  BY <1>2, <1>3, FS_Injection
<1>5. Cardinality(1..n) = n
  BY <1>1, FS_Interval
<1> QED
  BY <1>1, <1>3, <1>4, <1>5, ChannelsAre DEF n

\* A step of a goroutine keeps the invariant.
LEMMA SectionKeeps ==
    ASSUME IInv, NEW i \in Index, Section(i)
    PROVE  IInv'
<1>1. Running(i) /\ (Moved(i) \/ Sends(i)) /\ UNCHANGED <<file, main>> /\ TypeOK
  BY SectionCases DEF IInv
<1>2. /\ pc \in {"generate", "modify"} /\ i \in affected
      /\ proc[i].at # "done" /\ proc \in [Index -> Goroutine] /\ channel \in Seq(Result)
      /\ results[i].error /\ Sent(i) = {} /\ i \notin failed
  BY <1>1, TypeSets, ChannelsAre DEF Types, IInv, Phases, Running, Results
<1>3. \A j \in Index : j # i => proc'[j] = proc[j]
  BY <1>1, <1>2 DEF Moved, Sends, Send
<1>4. UNCHANGED <<mode, interactive, pc, round, job, file, backup, sections, affected, results, outcome,
                  start, early>>
  BY <1>1 DEF main
<1>5. proc' \in [Index -> Goroutine] /\ proc'[i].at # "idle"
  BY <1>1, <1>2, BegunType DEF Moved, Sends, Send
<1>6. Phases'
  BY <1>2, <1>3, <1>4, <1>5 DEF IInv, Phases, Running
<1>7. Original' /\ Documents'
  BY <1>4 DEF IInv, Original, Documents, InOrder, Parsed, Rewritten
<1>8. SectionsAreKept' /\ ApprovedIsPopulated'
  BY <1>2, <1>4 DEF SectionsAreKept, ApprovedIsPopulated
<1>9. CASE Moved(i)
  <2>1. channel' = channel /\ failed' = failed /\ proc'[i].at # "done"
    BY <1>2, <1>9 DEF Moved
  <2>2. TypeOK'
    BY <1>1, <1>4, <1>5, <2>1, TypeSets DEF Types
  <2>3. \A j \in Index : Sent(j)' = Sent(j)
    BY <2>1 DEF Sent
  <2>4. Results' /\ Populated'
    <3>1. failed \subseteq Index
      BY <1>1, TypeSets DEF Types
    <3> QED
      BY <1>2, <1>3, <1>4, <2>1, <2>3, <3>1 DEF IInv, Results, Populated
  <2> QED
    BY <1>6, <1>7, <1>8, <2>2, <2>4 DEF IInv
<1>10. CASE Sends(i)
  <2>1. PICK r \in Result : r.index = i /\ (r.approved => r.content # "none") /\ Send(i, r)
    BY <1>10 DEF Sends
  <2>2. /\ channel' = Append(channel, r)
        /\ failed' = IF r.error THEN failed \cup {i} ELSE failed
        /\ proc' = [proc EXCEPT ![i] = Begun("done")]
    BY <2>1 DEF Send
  <2>3. /\ channel' \in Seq(Result) /\ DOMAIN channel' = DOMAIN channel \cup {Len(channel) + 1}
        /\ channel'[Len(channel) + 1] = r
        /\ \A k \in DOMAIN channel : channel'[k] = channel[k] /\ k # Len(channel) + 1
    BY <1>2, <2>2
  <2>4. proc'[i].at = "done"
    BY <1>2, <2>2, BegunType
  <2>5. Sent(i)' = {Len(channel) + 1} /\ \A j \in Index : j # i => Sent(j)' = Sent(j)
    BY <1>2, <2>1, <2>3 DEF Sent
  <2>6. \A j, k \in DOMAIN channel' : channel'[j].index = channel'[k].index => j = k
    BY <1>2, <2>1, <2>3 DEF IInv, Results, Sent
  <2>7. TypeOK'
    BY <1>1, <1>4, <1>5, <2>2, <2>3, <2>6, ChannelHasRoom, TypeSets DEF Types
  <2>8. \A k \in failed' : /\ proc'[k].at = "done" /\ results'[k].error
                           /\ \A n \in Sent(k)' : channel'[n].error
    <3>1. ASSUME NEW k \in failed
          PROVE  proc'[k].at = "done" /\ results'[k].error /\ \A n \in Sent(k)' : channel'[n].error
      <4>1. k \in Index /\ k # i
        BY <1>1, <1>2, TypeSets DEF Types
      <4>2. Sent(k)' = Sent(k) /\ \A n \in Sent(k) : channel'[n] = channel[n]
        BY <2>3, <2>5, <4>1 DEF Sent
      <4> QED
        BY <1>3, <1>4, <4>1, <4>2 DEF IInv, Results
    <3>2. r.error => /\ proc'[i].at = "done" /\ results'[i].error
                     /\ \A n \in Sent(i)' : channel'[n].error
      BY <1>2, <1>4, <2>3, <2>4, <2>5
    <3> QED
      BY <2>2, <3>1, <3>2
  <2>9. Results'
    BY <1>3, <1>4, <2>4, <2>5, <2>6, <2>8 DEF IInv, Results
  <2>10. Populated'
    BY <1>4, <2>1, <2>3 DEF IInv, Populated
  <2> QED
    BY <1>6, <1>7, <1>8, <2>7, <2>9, <2>10 DEF IInv
<1> QED
  BY <1>1, <1>9, <1>10

-----------------------------------------------------------------------------
(***************************************************************************)
(* The command.                                                            *)
(***************************************************************************)
\* The invariant holds when the command begins.
LEMMA InitIInv == Init => IInv
<1> SUFFICES ASSUME Init PROVE IInv
  OBVIOUS
<1>1. 0 \in 0..MaxRounds /\ round = 0
  BY DocAgentAssumption DEF Init
<1>2. NoDocument \in Document /\ Authored \in Document
  BY <1>1, DocumentsType
<1>3. proc \in [Index -> Goroutine] /\ \A i \in Index : proc[i].at = "idle"
  BY BegunType DEF Init
<1>4. /\ results \in [Index -> Result]
      /\ \A i \in Index : results[i].index = i /\ results[i].error /\ ~results[i].approved
  BY NoResultType DEF Init, NoResults
<1>5. channel \in Channels /\ DOMAIN channel = {}
  BY ChannelsAre DEF Init
<1>6. Types
  BY <1>1, <1>2, <1>3, <1>4, <1>5, SectionsAre DEF Init, Types, Before
<1>7. Phases /\ Original /\ Documents
  BY <1>2, <1>3 DEF Init, Phases, Running, Original, Before, Working, Documents, InOrder, Parsed,
                        Rewritten
<1>8. Results /\ Populated
  BY <1>3, <1>4, <1>5 DEF Init, Results, Populated, Sent
<1>9. SectionsAreKept /\ ApprovedIsPopulated
  BY DEF Init, SectionsAreKept, ApprovedIsPopulated
<1> QED
  BY <1>6, <1>7, <1>8, <1>9, TypeSets DEF IInv

\* What a step that leaves the goroutines alone keeps.
LEMMA Apart ==
    ASSUME IInv, UNCHANGED <<affected, results, failed, proc, channel>>
    PROVE  Results' /\ Populated'
BY DEF IInv, Results, Populated, Sent

\* No goroutine runs while the command does not collect, nor when all are done.
LEMMA Quiet ==
    ASSUME IInv, pc \notin {"generate", "modify"} \/ Closed
    PROVE  \A i \in Index : ~Running(i)
BY DEF IInv, Phases, Running, Closed

\* A tool writes the document.
LEMMA ToolWritesKeeps ==
    ASSUME IInv, ToolWrites
    PROVE  IInv'
<1>1. Types
  BY TypeSets DEF IInv
<1>2. pc \in {"confirm", "analyze", "generate", "modify"}
  BY DEF ToolWrites, ToolsRun, IInv, Phases, Running
<1>3. file' \in Document
  BY <1>1, DocumentsType DEF Types, ToolWrites
<1>4. early' = (early \/ pc = "confirm") /\ UNCHANGED <<mode, interactive, pc, round, job, backup, sections,
         affected, proc, channel, results, outcome, start, failed>>
  BY DEF ToolWrites
<1>5. early' \in BOOLEAN
  BY <1>1, <1>4 DEF Types
<1>6. Types'
  BY <1>1, <1>3, <1>4, <1>5 DEF Types
<1>7. Phases'
  BY <1>4 DEF IInv, Phases, Running
<1>8. Documents'
  BY <1>3, <1>4 DEF IInv, Documents, InOrder, Parsed, Rewritten
<1>9. Original'
  BY <1>2, <1>4 DEF IInv, Phases, Original, Before, Working
<1>10. SectionsAreKept' /\ ApprovedIsPopulated'
  BY <1>2, <1>4 DEF SectionsAreKept, ApprovedIsPopulated
<1> QED
  BY <1>4, <1>6, <1>7, <1>8, <1>9, <1>10, Apart, TypeSets DEF IInv

\* The command begins, or fails to.
LEMMA StartKeeps ==
    ASSUME IInv, Start \/ Confirm
    PROVE  IInv'
<1>1. Types
  BY TypeSets DEF IInv
<1>2. /\ pc \in {"start", "confirm"} /\ UNCHANGED <<mode, interactive, round, job, file, backup, sections,
         affected, results, proc, channel, early, start, failed>>
      /\ \/ pc' \in {"confirm", "backup"} /\ outcome' = outcome
         \/ pc' = "done" /\ outcome' \in {"left", "failed"}
  BY DEF Start, Confirm, Selected, Goroutines, Goto, Return, Fail
<1>3. Types'
  BY <1>1, <1>2 DEF Types, Before
<1>4. Phases'
  BY <1>2, Quiet DEF IInv, Phases, Running
<1>5. Original'
  BY <1>2 DEF IInv, Phases, Original, Before, Working
<1>6. Documents'
  BY <1>2 DEF IInv, Documents, Working, InOrder, Parsed, Rewritten
<1>7. SectionsAreKept' /\ ApprovedIsPopulated'
  BY <1>2 DEF SectionsAreKept, ApprovedIsPopulated
<1> QED
  BY <1>2, <1>3, <1>4, <1>5, <1>6, <1>7, Apart, TypeSets DEF IInv

\* Every goroutine of a round begins without a result.
LEMMA LaunchFacts ==
    ASSUME NEW work \in SUBSET Index, NEW at \in {"generator", "reviser"}, Launch(work, at)
    PROVE  /\ proc' \in [Index -> Goroutine] /\ \A i \in Index \ work : proc'[i].at = "idle"
           /\ channel' \in Channels /\ affected' = work /\ failed' = {}
           /\ results' \in [Index -> Result]
           /\ Results' /\ Populated'
<1>1. /\ proc' \in [Index -> Goroutine] /\ \A i \in Index \ work : proc'[i].at = "idle"
      /\ \A i \in Index : proc'[i].at # "done"
  BY BegunType DEF Launch
<1>2. /\ results' \in [Index -> Result]
      /\ \A i \in Index : results'[i].index = i /\ results'[i].error /\ ~results'[i].approved
  BY NoResultType DEF Launch, NoResults
<1>3. channel' \in Channels /\ DOMAIN channel' = {} /\ failed' = {} /\ affected' = work
  BY ChannelsAre DEF Launch
<1>4. Results' /\ Populated'
  BY <1>1, <1>2, <1>3 DEF Results, Populated, Sent
<1> QED
  BY <1>1, <1>2, <1>3, <1>4

\* The document is backed up, and its sections are generated.
LEMMA BackupAndGenerateKeeps ==
    ASSUME IInv, BackupAndGenerate
    PROVE  IInv'
<1>1. Types /\ pc = "backup" /\ UNCHANGED <<mode, interactive, file, early, start>>
  BY TypeSets DEF IInv, BackupAndGenerate, Selected
<1>2. CASE Fail /\ UNCHANGED <<round, job, backup, sections, affected, results, failed, Goroutines>>
  <2>1. /\ pc' = "done" /\ outcome' = "failed"
        /\ UNCHANGED <<round, job, backup, sections, affected, results, failed, proc, channel>>
    BY <1>2 DEF Fail, Return, Goroutines
  <2>2. Types' /\ Phases'
    BY <1>1, <2>1, Quiet DEF Types, IInv, Phases, Running
  <2>3. Original' /\ Documents'
    BY <1>1, <2>1 DEF IInv, Original, Before, Working, Documents, InOrder, Parsed, Rewritten
  <2>4. SectionsAreKept' /\ ApprovedIsPopulated'
    BY <2>1 DEF SectionsAreKept, ApprovedIsPopulated
  <2> QED
    BY <2>1, <2>2, <2>3, <2>4, Apart, TypeSets DEF IInv
<1>3. CASE /\ Goto("generate")
           /\ backup' = file /\ round' = 1 /\ job' = "rewrite"
           /\ sections' = Texts("found", NSections)
           /\ Launch(1..NSections, "generator")
  <2>1. pc' = "generate" /\ outcome' = outcome /\ Launch(1..NSections, "generator")
    BY <1>3 DEF Goto
  <2>2. 1 \in 0..MaxRounds /\ NSections \in 0..MaxSections /\ 1..NSections \subseteq Index
    BY DocAgentAssumption DEF Index
  <2>3. /\ sections' \in Sections /\ InOrder(sections') /\ Parsed(sections')
        /\ DOMAIN sections' = 1..NSections
    BY <1>3, <2>2, TextsType
  <2>4. /\ proc' \in [Index -> Goroutine] /\ channel' \in Channels /\ affected' = 1..NSections
        /\ \A i \in Index \ affected' : proc'[i].at = "idle"
        /\ failed' = {} /\ results' \in [Index -> Result] /\ Results' /\ Populated'
    BY <2>1, <2>2, LaunchFacts
  <2>5. Types'
    BY <1>1, <1>3, <2>1, <2>2, <2>3, <2>4 DEF Types, Working
  <2>6. Phases'
    BY <1>1, <2>1, <2>2, <2>4 DEF IInv, Phases, Running
  <2>7. Original'
    BY <1>1, <1>3, <2>1 DEF IInv, Phases, Original, Before, Working
  <2>8. Documents'
    BY <1>1, <1>3, <2>3, <2>4 DEF IInv, Documents, InOrder, Parsed, Rewritten
  <2>9. SectionsAreKept' /\ ApprovedIsPopulated'
    BY <2>1 DEF SectionsAreKept, ApprovedIsPopulated
  <2> QED
    BY <2>4, <2>5, <2>6, <2>7, <2>8, <2>9, TypeSets DEF IInv
<1> QED
  BY <1>2, <1>3 DEF BackupAndGenerate

\* The document is backed up and parsed.
LEMMA BackupAndParseKeeps ==
    ASSUME IInv, BackupAndParse
    PROVE  IInv'
<1>1. /\ Types /\ pc = "backup"
      /\ UNCHANGED <<mode, interactive, job, file, early, start, affected, results, failed, proc,
                     channel>>
  BY TypeSets DEF IInv, BackupAndParse, Selected, Goroutines
<1>2. CASE Fail /\ UNCHANGED <<round, backup, sections>>
  <2>1. pc' = "done" /\ outcome' = "failed" /\ UNCHANGED <<round, backup, sections>>
    BY <1>2 DEF Fail, Return
  <2>2. Types' /\ Phases'
    BY <1>1, <2>1, Quiet DEF Types, IInv, Phases, Running
  <2>3. Original' /\ Documents'
    BY <1>1, <2>1 DEF IInv, Original, Before, Working, Documents, InOrder, Parsed, Rewritten
  <2>4. SectionsAreKept' /\ ApprovedIsPopulated'
    BY <2>1 DEF SectionsAreKept, ApprovedIsPopulated
  <2> QED
    BY <1>1, <2>2, <2>3, <2>4, Apart, TypeSets DEF IInv
<1>3. CASE /\ file.texts # <<>> /\ Headings(file.texts) <= MaxSections
           /\ Goto("analyze")
           /\ backup' = file /\ round' = 1 /\ sections' = ParseSections(file.texts)
  <2>1. pc' = "analyze" /\ outcome' = outcome /\ 1 \in 0..MaxRounds
    BY <1>3, DocAgentAssumption DEF Goto
  <2>2. sections' \in Sections /\ InOrder(sections') /\ Parsed(sections')
    BY <1>1, <1>3, ParsedType DEF Types, Document
  <2>3. Types'
    BY <1>1, <1>3, <2>1, <2>2 DEF Types, Working
  <2>4. Phases'
    BY <1>1, <2>1, Quiet DEF IInv, Phases, Running
  <2>5. Original'
    BY <1>1, <1>3, <2>1 DEF IInv, Phases, Original, Before, Working
  <2>6. Documents'
    BY <1>1, <1>3, <2>1, <2>2 DEF IInv, Documents, InOrder, Parsed, Rewritten
  <2>7. SectionsAreKept' /\ ApprovedIsPopulated'
    BY <2>1 DEF SectionsAreKept, ApprovedIsPopulated
  <2> QED
    BY <1>1, <2>3, <2>4, <2>5, <2>6, <2>7, Apart, TypeSets DEF IInv
<1> QED
  BY <1>2, <1>3 DEF BackupAndParse

\* The affected sections are modified.
LEMMA AnalyzeKeeps ==
    ASSUME IInv, Analyze
    PROVE  IInv'
<1>1. PICK work \in SUBSET DOMAIN sections : Launch(work, "reviser")
  BY DEF Analyze
<1>2. /\ Types /\ pc = "analyze" /\ pc' = "modify" /\ job' \in {"global", "specific"}
      /\ UNCHANGED <<mode, interactive, outcome, start, round, file, backup, sections, early>>
  BY TypeSets DEF IInv, Analyze, Goto, Selected
<1>3. /\ proc' \in [Index -> Goroutine] /\ \A i \in Index \ work : proc'[i].at = "idle"
      /\ channel' \in Channels /\ affected' = work /\ failed' = {}
      /\ results' \in [Index -> Result] /\ Results' /\ Populated'
  BY <1>1, <1>2, LaunchFacts, SectionsAre DEF Types
<1>4. Types'
  <2>1. work \subseteq Index
    BY <1>2, SectionsAre DEF Types
  <2> QED
    BY <1>2, <1>3, <2>1 DEF Types, Working
<1>5. Phases'
  BY <1>2, <1>3 DEF IInv, Phases, Running
<1>6. Original' /\ Documents'
  BY <1>2 DEF IInv, Original, Before, Working, Documents, InOrder, Parsed, Rewritten
<1>7. SectionsAreKept' /\ ApprovedIsPopulated'
  BY <1>2 DEF SectionsAreKept, ApprovedIsPopulated
<1> QED
  BY <1>3, <1>4, <1>5, <1>6, <1>7, TypeSets DEF IInv

\* A result is put in the place of its section, whichever goroutine was first.
LEMMA CollectKeeps ==
    ASSUME IInv, Collect
    PROVE  IInv'
<1> DEFINE r == Head(channel)
<1>1. /\ Types /\ pc \in {"generate", "modify"} /\ channel \in Seq(Result) /\ Len(channel) <= MaxSections
      /\ UNCHANGED <<mode, interactive, pc, round, job, file, backup, sections, affected, proc, outcome,
                     start, early, failed>>
  BY TypeSets, ChannelsAre DEF IInv, Collect, history, Types
<1>2. r = channel[1] /\ r \in Result /\ 1 \in DOMAIN channel /\ r.index \in Index
  <2>1. channel # <<>>
    BY DEF Collect
  <2>2. r = channel[1] /\ 1 \in DOMAIN channel /\ r \in Result
    BY <1>1, <2>1
  <2> QED
    BY <2>2 DEF Result
<1>3. /\ channel' \in Seq(Result) /\ Len(channel') <= MaxSections
      /\ \A k \in DOMAIN channel' : k + 1 \in DOMAIN channel /\ k \in Nat /\ channel'[k] = channel[k + 1]
  BY <1>1, DocAgentAssumption DEF Collect
<1>4. /\ results' \in [Index -> Result] /\ results'[r.index] = r
      /\ \A i \in Index : i # r.index => results'[i] = results[i]
  BY <1>1, <1>2 DEF Collect, Types
<1> HIDE DEF r
<1>5. \A i \in Index : /\ \A k \in Sent(i)' : k + 1 \in Sent(i)
                       /\ r.index = i => 1 \in Sent(i)
  BY <1>2, <1>3 DEF Sent
<1>6. Types'
  BY <1>1, <1>3, <1>4, ChannelsAre DEF Types
<1>7. Phases' /\ Original' /\ Documents'
  BY <1>1 DEF IInv, Phases, Running, Original, Documents, InOrder, Parsed, Rewritten
<1>8. Results'
  <2>1. \A i \in Index : results'[i].index = i
    BY <1>4 DEF IInv, Results
  <2>2. \A i \in Index : proc'[i].at # "done" => results'[i].error /\ Sent(i)' = {}
    BY <1>1, <1>4, <1>5 DEF IInv, Results
  <2>3. \A j, k \in DOMAIN channel' : channel'[j].index = channel'[k].index => j = k
    <3> SUFFICES ASSUME NEW j \in DOMAIN channel', NEW k \in DOMAIN channel',
                        channel'[j].index = channel'[k].index
                 PROVE  j = k
      OBVIOUS
    <3>1. j + 1 = k + 1
      BY <1>3 DEF IInv, Results
    <3> QED
      BY <1>3, <3>1
  <2>4. ASSUME NEW i \in failed'
        PROVE  /\ proc'[i].at = "done" /\ results'[i].error /\ \A k \in Sent(i)' : channel'[k].error
    <3>1. i \in Index /\ i \in failed
      BY <1>1 DEF Types
    <3>2. proc[i].at = "done" /\ results[i].error /\ \A k \in Sent(i) : channel[k].error
      BY <3>1 DEF IInv, Results
    <3>3. results'[i].error
      BY <1>2, <1>4, <1>5, <3>1, <3>2
    <3>4. \A k \in Sent(i)' : channel'[k].error
      BY <1>3, <1>5, <3>1, <3>2 DEF Sent
    <3> QED
      BY <1>1, <3>2, <3>3, <3>4
  <2> QED
    BY <2>1, <2>2, <2>3, <2>4 DEF Results
<1>9. Populated'
  <2>1. r.approved => r.content # "none"
    BY <1>2 DEF IInv, Populated
  <2>2. \A i \in Index : results'[i].approved => results'[i].content # "none"
    BY <1>4, <2>1 DEF IInv, Populated
  <2>3. \A k \in DOMAIN channel' : channel'[k].approved => channel'[k].content # "none"
    BY <1>3 DEF IInv, Populated
  <2> QED
    BY <2>2, <2>3 DEF Populated
<1>10. SectionsAreKept' /\ ApprovedIsPopulated'
  BY <1>1 DEF SectionsAreKept, ApprovedIsPopulated
<1> QED
  BY <1>6, <1>7, <1>8, <1>9, <1>10, TypeSets DEF IInv

\* The channel is closed: the document is assembled.
LEMMA AssembleKeeps ==
    ASSUME IInv, Assemble
    PROVE  IInv'
<1>1. /\ Types /\ pc \in {"generate", "modify"} /\ pc' = "write" /\ Closed
      /\ UNCHANGED <<mode, interactive, outcome, start, round, job, file, backup, sections, early, affected,
                     results, failed, proc, channel>>
  BY TypeSets DEF IInv, Assemble, Goto, Selected, Goroutines
<1>2. Types'
  BY <1>1 DEF Types, Working
<1>3. Phases'
  BY <1>1, Quiet DEF IInv, Phases, Running
<1>4. Original' /\ Documents'
  BY <1>1 DEF IInv, Original, Before, Working, Documents, InOrder, Parsed, Rewritten
<1>5. SectionsAreKept' /\ ApprovedIsPopulated'
  BY <1>1 DEF SectionsAreKept, ApprovedIsPopulated
<1> QED
  BY <1>1, <1>2, <1>3, <1>4, <1>5, Apart, TypeSets DEF IInv

\* The text that is assembled for a section, from the results of its goroutine.
LEMMA AssembledText ==
    ASSUME IInv, pc = "write", NEW i \in DOMAIN sections
    PROVE  /\ Assembled(i) \in Text /\ Assembled(i).of = i
           /\ job # "rewrite" => (i \notin affected \/ i \in failed => Assembled(i) = sections[i])
           /\ job = "rewrite" /\ results[i].approved =>
                  Assembled(i).by = "generator" \/ results[i].content = "title"
<1>1. Types /\ InOrder(sections) /\ i \in Index
  BY TypeSets, SectionsAre DEF IInv, Documents, Types
<1>2. /\ results[i].index = i /\ results[i].content \in Answer /\ (i \in failed => results[i].error)
      /\ (results[i].approved => results[i].content # "none")
  BY <1>1 DEF IInv, Results, Populated, Types, Result
<1>3. sections[i] \in Text /\ sections[i].of = i
  BY <1>1, SectionsAre DEF Types, InOrder
<1> DEFINE writer == Writer(results[i].content)
           extent == ExtentOf(results[i].content)
<1>4. writer \in {"generator", "placeholder", "reviser"} /\ extent \in Extent
  BY DEF Writer, ExtentOf, Extent
<1>5. job = "rewrite" /\ results[i].approved => writer = "generator" \/ results[i].content = "title"
  BY <1>2 DEF Writer
<1>6. job = "rewrite" => i \in affected
  BY DEF IInv, Documents, Rewritten
<1> HIDE DEF writer, extent
<1>7. /\ Written(i, writer, extent) \in Text
      /\ Written(i, writer, extent).of = i /\ Written(i, writer, extent).by = writer
  BY <1>1, <1>4 DEF Written, Text
<1>8. Assembled(i) = IF i \in affected /\ (job = "rewrite" \/ ~results[i].error)
                     THEN Written(i, writer, extent) ELSE sections[i]
  BY <1>2 DEF Assembled, writer, extent
<1> QED
  BY <1>2, <1>3, <1>5, <1>6, <1>7, <1>8

\* An answer is of less or more than the section only if all sections are modified.
LEMMA WholeIsWritten ==
    ASSUME IInv, pc = "write", job # "global", sections \in Sections,
           \A i \in DOMAIN sections : sections[i].extent \notin {"own", "more"},
           NEW i \in DOMAIN sections
    PROVE  Assembled(i).extent \notin {"own", "more"}
BY DEF Assembled, Written, ExtentOf

\* The document that is written has every section in its place.
LEMMA FinalIsWhole ==
    ASSUME IInv, pc = "write"
    PROVE  /\ Final \in Document /\ Len(Final.texts) = Len(sections)
           /\ DOMAIN Final.texts = DOMAIN sections
           /\ \A i \in DOMAIN sections : Final.texts[i] = Assembled(i)
           /\ job # "global" => Parsed(Final.texts)
<1> DEFINE texts == [i \in DOMAIN sections |-> Assembled(i)]
           n == Len(sections)
<1>1. sections \in Sections /\ n \in 0..MaxSections /\ DOMAIN sections = 1..n
  BY TypeSets, SectionsAre DEF IInv, Types
<1>2. texts \in [1..n -> Text]
  BY <1>1, AssembledText
<1>3. \A i \in DOMAIN sections : texts[i] = Assembled(i)
  OBVIOUS
<1>4. job # "global" => \A i \in 1..n : texts[i].extent \notin {"own", "more"}
  BY <1>1, WholeIsWritten DEF IInv, Documents, Parsed
<1>5. Final = [there |-> TRUE, title |-> job = "rewrite", texts |-> texts]
  BY DEF Final
<1> HIDE DEF texts, n
<1>6. texts \in Sections
  BY <1>1, <1>2, SectionsAre
<1>7. DOMAIN texts = 1..n /\ Len(texts) = n /\ n \in Nat
  BY <1>1, <1>2, DocAgentAssumption
<1>8. Final.texts = texts /\ (job = "rewrite") \in BOOLEAN
  BY <1>5
<1>9. Final \in Document
  BY <1>5, <1>6 DEF Document
<1>10. job # "global" => Parsed(texts)
  BY <1>4, <1>7 DEF Parsed
<1> QED
  BY <1>1, <1>3, <1>7, <1>8, <1>9, <1>10 DEF n

\* The document is written and shown to the user, or the file is torn.
LEMMA WriteKeeps ==
    ASSUME IInv, Write
    PROVE  IInv'
<1>1. /\ Types /\ pc = "write"
      /\ UNCHANGED <<mode, interactive, start, round, job, backup, sections, affected, results, early,
                     failed, proc, channel>>
  BY TypeSets DEF IInv, Write, Selected, Goroutines
<1>2. Results' /\ Populated' /\ \A i \in Index : ~Running(i)'
  BY <1>1, Apart, Quiet DEF Running
<1>3. CASE file' = Final /\ IF interactive THEN Goto("review") ELSE Return("accepted")
  <2>1. \/ pc' = "review" /\ outcome' = outcome
        \/ pc' = "done" /\ outcome' = "accepted"
    BY <1>3 DEF Goto, Return
  <2>2. /\ Final \in Document /\ Len(Final.texts) = Len(sections)
        /\ DOMAIN Final.texts = DOMAIN sections
        /\ job # "global" => Parsed(Final.texts)
    BY <1>1, FinalIsWhole
  <2>3. Types'
    BY <1>1, <1>3, <2>1, <2>2 DEF Types, Working
  <2>4. Phases'
    BY <1>1, <1>2, <2>1 DEF IInv, Phases
  <2>5. Original'
    BY <1>1, <2>1 DEF IInv, Phases, Original, Before, Working
  <2>6. Documents'
    BY <1>1, <1>3, <2>2 DEF IInv, Documents, Working, InOrder, Parsed, Rewritten
  <2>7. \A i \in DOMAIN sections : file'.texts[i] = Assembled(i)
    BY <1>1, <1>3, FinalIsWhole
  <2>8. SectionsAreKept'
    BY <1>1, <1>3, <2>2, <2>7, AssembledText DEF SectionsAreKept, Parsed
  <2>9. ApprovedIsPopulated'
    BY <1>1, <2>7, AssembledText DEF ApprovedIsPopulated, Approved
  <2> QED
    BY <1>2, <2>3, <2>4, <2>5, <2>6, <2>8, <2>9, TypeSets DEF IInv
<1>4. CASE file' \in {file, Torn} /\ Fail
  <2>1. pc' = "done" /\ outcome' = "failed"
    BY <1>4 DEF Fail, Return
  <2>2. file' \in Document
    BY <1>1, <1>4, DocumentsType DEF Types
  <2>3. Types' /\ Phases'
    BY <1>1, <1>2, <2>1, <2>2 DEF Types, IInv, Phases
  <2>4. Original'
    BY <1>1, <2>1 DEF IInv, Original, Before, Working
  <2>5. Documents'
    BY <1>1, <2>1, <2>2 DEF IInv, Documents, Working, InOrder, Parsed, Rewritten
  <2>6. SectionsAreKept' /\ ApprovedIsPopulated'
    BY <2>1 DEF SectionsAreKept, ApprovedIsPopulated
  <2> QED
    BY <1>2, <2>3, <2>4, <2>5, <2>6, TypeSets DEF IInv
<1> QED
  BY <1>3, <1>4 DEF Write

\* The review ends.
LEMMA ReviewEndsKeeps ==
    ASSUME IInv, PromptFails \/ Accept \/ Cancel \/ LeaveChanges
    PROVE  IInv'
<1>1. /\ Types /\ pc = "review" /\ pc' = "done"
      /\ \/ outcome' \in {"accepted", "left", "failed"} /\ file' \in {file, Torn}
         \/ outcome' = "cancelled" /\ file' = backup
      /\ UNCHANGED <<mode, interactive, start, round, job, backup, sections, affected, results, early,
                     failed, proc, channel>>
  BY TypeSets DEF IInv, PromptFails, Accept, Cancel, LeaveChanges, ReviewUnchanged, Fail, Return,
                  Selected, Goroutines
<1>2. file' \in Document
  BY <1>1, DocumentsType DEF Types
<1>3. Types'
  BY <1>1, <1>2 DEF Types
<1>4. Phases'
  BY <1>1, Quiet DEF IInv, Phases, Running
<1>5. Original'
  BY <1>1 DEF IInv, Original, Before, Working
<1>6. Documents'
  BY <1>1, <1>2 DEF IInv, Documents, Working, InOrder, Parsed, Rewritten
<1>7. SectionsAreKept' /\ ApprovedIsPopulated'
  BY <1>1 DEF SectionsAreKept, ApprovedIsPopulated
<1> QED
  BY <1>1, <1>3, <1>4, <1>5, <1>6, <1>7, Apart, TypeSets DEF IInv

\* The user asks for more changes: the document that was reviewed is parsed.
LEMMA RequestChangesKeeps ==
    ASSUME IInv, RequestChanges
    PROVE  IInv'
<1>1. /\ Types /\ pc = "review" /\ round < MaxRounds /\ Headings(file.texts) <= MaxSections
      /\ UNCHANGED <<mode, interactive, start, job, file, backup, affected, results, early, failed, proc,
                     channel>>
  BY TypeSets DEF IInv, RequestChanges, Selected, Goroutines
<1>2. CASE Fail /\ UNCHANGED <<round, sections>>
  <2>1. pc' = "done" /\ outcome' = "failed" /\ UNCHANGED <<round, sections>>
    BY <1>2 DEF Fail, Return
  <2>2. Types' /\ Phases'
    BY <1>1, <2>1, Quiet DEF Types, IInv, Phases, Running
  <2>3. Original' /\ Documents'
    BY <1>1, <2>1 DEF IInv, Original, Before, Working, Documents, InOrder, Parsed, Rewritten
  <2>4. SectionsAreKept' /\ ApprovedIsPopulated'
    BY <2>1 DEF SectionsAreKept, ApprovedIsPopulated
  <2> QED
    BY <1>1, <2>2, <2>3, <2>4, Apart, TypeSets DEF IInv
<1>3. CASE Goto("analyze") /\ round' = round + 1 /\ sections' = ParseSections(file.texts)
  <2>1. pc' = "analyze" /\ outcome' = outcome
    BY <1>3 DEF Goto
  <2>2. round' \in 0..MaxRounds
    BY <1>1, <1>3, DocAgentAssumption DEF Types
  <2>4. sections' \in Sections /\ InOrder(sections') /\ Parsed(sections')
    BY <1>1, <1>3, ParsedType DEF Types, Document
  <2>5. Types'
    BY <1>1, <2>1, <2>2, <2>4 DEF Types, Working
  <2>6. Phases'
    BY <1>1, <2>1, Quiet DEF IInv, Phases, Running
  <2>7. Original'
    BY <1>1, <2>1 DEF IInv, Phases, Original, Before, Working
  <2>8. Documents'
    BY <1>1, <2>1, <2>4 DEF IInv, Documents, InOrder, Parsed, Rewritten
  <2>9. SectionsAreKept' /\ ApprovedIsPopulated'
    BY <2>1 DEF SectionsAreKept, ApprovedIsPopulated
  <2> QED
    BY <1>1, <2>5, <2>6, <2>7, <2>8, <2>9, Apart, TypeSets DEF IInv
<1> QED
  BY <1>2, <1>3 DEF RequestChanges

-----------------------------------------------------------------------------
(***************************************************************************)
(* The theorems.                                                           *)
(***************************************************************************)
\* Every step keeps the invariant.
LEMMA StepIInv == IInv /\ [Next]_vars => IInv'
<1> SUFFICES ASSUME IInv, [Next]_vars PROVE IInv'
  OBVIOUS
<1>1. CASE Command
  BY <1>1, StartKeeps, BackupAndGenerateKeeps, BackupAndParseKeeps, AnalyzeKeeps, CollectKeeps,
     AssembleKeeps, WriteKeeps DEF Command
<1>2. CASE Review
  BY <1>2, ReviewEndsKeeps, RequestChangesKeeps DEF Review
<1>3. CASE ToolWrites
  BY <1>3, ToolWritesKeeps
<1>4. CASE \E i \in Index : Section(i)
  BY <1>4, SectionKeeps
<1>5. CASE UNCHANGED vars
  <2>1. UNCHANGED <<mode, interactive, pc, round, job, file, backup, sections, affected, proc, channel,
                    results, outcome, start, early, failed>>
    BY <1>5 DEF vars
  <2>2. Types'
    BY <2>1, TypeSets DEF IInv, Types
  <2>3. Phases' /\ Original' /\ Documents'
    BY <2>1 DEF IInv, Phases, Running, Original, Documents, InOrder, Parsed, Rewritten
  <2>4. SectionsAreKept' /\ ApprovedIsPopulated'
    BY <2>1 DEF IInv, SectionsAreKept, ApprovedIsPopulated, Approved
  <2> QED
    BY <2>1, <2>2, <2>3, <2>4, Apart, TypeSets DEF IInv
<1> QED
  BY <1>1, <1>2, <1>3, <1>4, <1>5 DEF Next

\* The invariant holds in every state of the command.
LEMMA Invariance == Spec => []IInv
BY InitIInv, StepIInv, PTL DEF Spec

\* Every variable has its type: the channel has room for the result of every goroutine, so that
\* none waits to send (resultsChan of GenerateAllSectionsWithValidation, wg.Wait).
THEOREM ChannelNeverFills == Spec => []TypeOK
<1>1. IInv => TypeOK
  BY DEF IInv
<1> QED
  BY Invariance, <1>1, PTL

\* A cancelled review gives back the document the command began with, or, if a tool wrote it
\* before it was backed up, the one that was backed up (restoreOriginalReadme).
THEOREM CancelledReviewRestores == Spec => []CancelRestores
<1>1. IInv => CancelRestores
  BY DEF IInv, Original, CancelRestores
<1> QED
  BY Invariance, <1>1, PTL

\* What is reviewed has for every section the answer of its agent, in its place, whichever
\* goroutine ended first; what is not affected or failed is as it was; only a modification of all
\* sections adds any; and what is approved is populated, or the answer was a title
\* (GenerateAllSectionsWithValidation, normalizeSectionContent, modifySpecificSections).
THEOREM ReviewShowsWholeDocuments == Spec => []ReviewedIsWhole
<1>1. IInv => ReviewedIsWhole
  BY DEF IInv, ReviewedIsWhole
<1> QED
  BY Invariance, <1>1, PTL
===============================================================================
