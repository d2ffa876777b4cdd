-------------------------------- MODULE MCDesk --------------------------------
(***************************************************************************)
(* Instances for TLC of what several people have open at once, which a run *)
(* explores one beside the other.  Of PromptStore:                         *)
(*   - drafts: a template open in the Studio of two editors;               *)
(*   - mixed: a template open in the library and in the Studio;            *)
(*   - isolates: the library alone, through two isolates;                  *)
(*   - policy: a voice without a policy of its own, open in both pages;    *)
(*   - firsts: such a voice in the library of two editors, who each type;  *)
(* and of Accounts:                                                        *)
(*   - accounts: two admins and a third person, in variables of its own.   *)
(* The other instances keep their state in as many of s1, ..., s11 as they *)
(* need.                                                                   *)
(***************************************************************************)
EXTENDS Accounts, TLC

CONSTANTS a, b, c, d, i1, i2

VARIABLES scene, s1, s2, s3, s4, s5, s6, s7, s8, s9, s10, s11
shared == <<s1, s2, s3, s4, s5, s6, s7, s8, s9, s10, s11>>

Drafts == INSTANCE PromptStore WITH
    Library <- {}, Studio <- {c, d}, Isolates <- {i1}, Inherits <- FALSE,
    Policy <- FALSE, MaxTexts <- 2, MaxVersions <- 2,
    own <- s1, row <- s2, versions <- s3, lock <- s4, cache <- s5, page <- s6, fetch <- s7,
    save <- s8, edits <- s9, excused <- s10, shown <- s11
Mixed == INSTANCE PromptStore WITH
    Library <- {a}, Studio <- {b}, Isolates <- {i1}, Inherits <- FALSE,
    Policy <- FALSE, MaxTexts <- 1, MaxVersions <- 1,
    own <- s1, row <- s2, versions <- s3, lock <- s4, cache <- s5, page <- s6, fetch <- s7,
    save <- s8, edits <- s9, excused <- s10, shown <- s11
TwoIsolates == INSTANCE PromptStore WITH
    Library <- {a}, Studio <- {}, Isolates <- {i1, i2}, Inherits <- FALSE,
    Policy <- FALSE, MaxTexts <- 1, MaxVersions <- 2,
    own <- s1, row <- s2, versions <- s3, lock <- s4, cache <- s5, page <- s6, fetch <- s7,
    save <- s8, edits <- s9, excused <- s10, shown <- s11
SourcePolicy == INSTANCE PromptStore WITH
    Library <- {a}, Studio <- {b}, Isolates <- {i1}, Inherits <- TRUE,
    Policy <- TRUE, MaxTexts <- 1, MaxVersions <- 2,
    own <- s1, row <- s2, versions <- s3, lock <- s4, cache <- s5, page <- s6, fetch <- s7,
    save <- s8, edits <- s9, excused <- s10, shown <- s11
FirstSaves == INSTANCE PromptStore WITH
    Library <- {c, d}, Studio <- {}, Isolates <- {i1}, Inherits <- TRUE,
    Policy <- TRUE, MaxTexts <- 2, MaxVersions <- 2,
    own <- s1, row <- s2, versions <- s3, lock <- s4, cache <- s5, page <- s6, fetch <- s7,
    save <- s8, edits <- s9, excused <- s10, shown <- s11

Symmetry == Permutations({c, d})

Unused == /\ s1 = 0 /\ s2 = 0 /\ s3 = 0 /\ s4 = 0 /\ s5 = 0 /\ s6 = 0 /\ s7 = 0
          /\ s8 = 0 /\ s9 = 0 /\ s10 = 0 /\ s11 = 0
DeskInit ==
    /\ Init
    /\ \/ scene = "drafts" /\ Drafts!Init
       \/ scene = "mixed" /\ Mixed!Init
       \/ scene = "isolates" /\ TwoIsolates!Init
       \/ scene = "policy" /\ SourcePolicy!Init
       \/ scene = "firsts" /\ FirstSaves!Init
       \/ scene = "accounts" /\ Unused
DeskNext ==
    /\ UNCHANGED scene
    /\ \/ scene = "accounts" /\ Next /\ UNCHANGED shared
       \/ /\ UNCHANGED vars
          /\ \/ scene = "drafts" /\ Drafts!Next
             \/ scene = "mixed" /\ Mixed!Next
             \/ scene = "isolates" /\ TwoIsolates!Next
             \/ scene = "policy" /\ SourcePolicy!Next
             \/ scene = "firsts" /\ FirstSaves!Next
DeskSpec == DeskInit /\ [][DeskNext]_<<scene, vars, shared>>

-----------------------------------------------------------------------------
\* The versions form one chain that ends in the text in force, whatever saves
\* and reverts were under way at once, and a cached text is out of date only in
\* an isolate that did not take the save, or that was loading meanwhile
\* (PromptStore!HistoryIsChain, StaleIsForeign).
HistoryIsChain ==
    /\ scene = "drafts" => Drafts!TypeOK /\ Drafts!HistoryIsChain /\ Drafts!StaleIsForeign
    /\ scene = "mixed" => Mixed!TypeOK /\ Mixed!HistoryIsChain /\ Mixed!StaleIsForeign
    /\ scene = "isolates" =>
        TwoIsolates!TypeOK /\ TwoIsolates!HistoryIsChain /\ TwoIsolates!StaleIsForeign
    /\ scene = "policy" => SourcePolicy!TypeOK /\ SourcePolicy!HistoryIsChain
    /\ scene = "firsts" => FirstSaves!TypeOK /\ FirstSaves!HistoryIsChain

\* Nobody overwrites a text that was never in front of them, but for a first save
\* that overlapped another, and what a Studio policy draft or a revert beside a draft
\* hides: PromptStore!NoBlindOverwrite.
NoBlindOverwrite ==
    /\ scene = "drafts" => Drafts!NoBlindOverwrite
    /\ scene = "mixed" => Mixed!NoBlindOverwrite
    /\ scene = "isolates" => TwoIsolates!NoBlindOverwrite
    /\ scene = "policy" => SourcePolicy!NoBlindOverwrite
    /\ scene = "firsts" => FirstSaves!NoBlindOverwrite

\* What somebody typed is replaced on the screen by a newer text of the server
\* or by the end of a save, and by nothing else: PromptStore!TypingIsKept.
TypingIsKept ==
    [][/\ scene = "drafts" => Drafts!TypingStep
       /\ scene = "mixed" => Mixed!TypingStep
       /\ scene = "isolates" => TwoIsolates!TypingStep
       /\ scene = "policy" => SourcePolicy!TypingStep
       /\ scene = "firsts" => FirstSaves!TypingStep]_shared
=============================================================================
