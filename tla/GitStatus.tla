------------------------------ MODULE GitStatus ------------------------------
(***************************************************************************)
(* The status of the workspace's repository (src/src/git.rs).  libgit2 is  *)
(* external: it opens a repository and lists entries with their flags; a   *)
(* path that is not UTF-8 is an error when it is reached.                  *)
(***************************************************************************)
EXTENDS Operation, Sequences

CONSTANTS
    MaxEntries,     \* MAX_GIT_STATUS_ENTRIES
    MaxListed,      \* bounds the entries a repository lists
    EntryFlags      \* the sets of flags an entry may have

Changes == {"New", "Modified", "Deleted", "Renamed", "Typechange"}

(* git2::Status: the changes of the two columns, and flags that the code   *)
(* does not look at.  statuses(None) lists ignored entries too.            *)
ColumnFlags == {"INDEX", "WT"} \X Changes
OtherFlags == {<<"WT", "Unreadable">>, <<"ENTRY", "Ignored">>, <<"ENTRY", "Conflicted">>}

ASSUME GitAssumption ==
    /\ MaxEntries \in Nat /\ MaxListed \in Nat
    /\ EntryFlags \subseteq SUBSET (ColumnFlags \cup OtherFlags)

VARIABLES
    repository,     \* what libgit2 finds at the workspace
    listing,        \* the entries of statuses(), as flags
    entries         \* the entries collected

gitVars == <<repository, listing, entries>>

ListedEntries == [flags : EntryFlags, utf8 : BOOLEAN]

Repositories ==
    [opens : BOOLEAN, gitDirInside : BOOLEAN, bare : BOOLEAN,
     worktreeIsRoot : BOOLEAN]

GitInit ==
    /\ repository = [opens |-> FALSE, gitDirInside |-> FALSE, bare |-> FALSE,
                     worktreeIsRoot |-> FALSE]
    /\ listing = <<>> /\ entries = <<>>

GitCalled ==
    /\ repository \in Repositories
    /\ listing \in UNION {[1 .. n -> ListedEntries] : n \in 0 .. MaxListed}
    /\ entries = <<>>

(* read_git_status: the repository must be the workspace's own.            *)
OpenRepository ==
    /\ pc = "start"
    /\ IF /\ repository.opens
          /\ repository.gitDirInside
          /\ ~ repository.bare
          /\ repository.worktreeIsRoot
       THEN Goto("collect")
       ELSE Return(Err("repository"))
    /\ UNCHANGED gitVars

(* ensure_status_entry_capacity.                                           *)
HasCapacity(count) == count < MaxEntries

(* The changes of one column.                                              *)
Column(flags, name) == {c \in Changes : <<name, c>> \in flags}

(* One turn of the loop over the entries, and its end.                     *)
CollectEntry ==
    /\ pc = "collect"
    /\ IF Len(entries) = Len(listing)
       THEN Return(Ok(entries)) /\ UNCHANGED entries
       ELSE LET entry == listing[Len(entries) + 1] IN
            IF ~ HasCapacity(Len(entries)) \/ ~ entry.utf8
            THEN Return(Err("entries")) /\ UNCHANGED entries
            ELSE /\ entries' = Append(entries,
                        [index |-> Column(entry.flags, "INDEX"),
                         worktree |-> Column(entry.flags, "WT")])
                 /\ Goto("collect")
    /\ UNCHANGED <<repository, listing>>

GitNext == OpenRepository \/ CollectEntry
GitFairness == WF_<<callState, gitVars>>(kind = "git" /\ GitNext)

-----------------------------------------------------------------------------
(* The status has every entry that libgit2 lists, in its order, each with  *)
(* the changes that its flags name, or is an error: a list cut at the      *)
(* maximum is never given out as the whole.  An entry with no flag but     *)
(* others (ignored, conflicted, unreadable) is there with empty columns.   *)
Flagged(entry) ==
    {<<"INDEX", c>> : c \in entry.index} \cup {<<"WT", c>> : c \in entry.worktree}

StatusIsWhole ==
    kind = "git" /\ answer.is = "Ok" =>
        /\ repository.worktreeIsRoot /\ repository.gitDirInside
        /\ Len(answer.value) = Len(listing) /\ Len(listing) <= MaxEntries
        /\ \A i \in 1 .. Len(listing) :
              Flagged(answer.value[i]) = listing[i].flags \cap ColumnFlags
=============================================================================
