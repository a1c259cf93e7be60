------------------------------ MODULE Transfer ------------------------------
(***************************************************************************)
(* The command line tool (blockstore-cli/src/main.rs and import.rs) beside *)
(* a user of the library, on the same directories.  The tool runs get,     *)
(* copy and import one command at a time, with a session for the store it  *)
(* reads and one for the store it writes; each opens its directory in the  *)
(* steps of Lifecycle.  A block that import puts together is the set of    *)
(* the heights that its parts were taken from.                             *)
(***************************************************************************)
EXTENDS Lifecycle, SequencesExt

CONSTANTS
  User, Source, Target,  \* the sessions
  Starts,                \* the values of --start-block
  Tables                 \* the sets of heights a LevelDB table may hold

ASSUME TransferAssumption ==
  /\ Sessions = {User, Source, Target}
  /\ User # Source /\ User # Target /\ Source # Target
  /\ Starts \subseteq Heights
  /\ \A T \in Tables : T \subseteq Heights
  /\ \A h \in Heights : {h} # NoBlock /\ {h} # Failure

VARIABLE cmd  \* the command of the tool

tvars == <<lvars, cmd>>

Command(kind, to, start, streams) ==
  [kind |-> kind, to |-> to, start |-> start, streams |-> streams, next |-> 0]

(* No --start-block: copy begins at the minimum height, import at the first key. *)
NoStart == -1

NoCommand == Command("none", NoDir, NoStart, <<>>)

Existing == [truncate |-> FALSE, min |-> 1, cap |-> 0]
Fresh(min, cap) == [truncate |-> TRUE, min |-> min, cap |-> cap]

TInit == LInit /\ cmd = NoCommand

-----------------------------------------------------------------------------
(* A user of the library. *)

UserStep ==
  /\ \/ \E d \in Dirs : OpenIndex(User, d, Existing)
     \/ \E d \in Dirs, m \in MinHeights, c \in Caps : OpenIndex(User, d, Fresh(m, c))
     \/ \E h \in Heights, b \in Blocks : Write(User, h, b)
     \/ Close({User})
     \/ Crash({User})
  /\ UNCHANGED cmd

-----------------------------------------------------------------------------
(* get and copy. *)

Done == cmd' = NoCommand

StartGet(d) ==
  /\ cmd = NoCommand
  /\ OpenIndex(Source, d, Existing)
  /\ cmd' = Command("get", NoDir, NoStart, <<>>)

(* A block that is not there is a panic, which drops the store as well. *)
GetReturns ==
  /\ cmd.kind = "get"
  /\ Close({Source})
  /\ Done

StartCopy(d, t, start) ==
  /\ cmd = NoCommand
  /\ OpenIndex(Source, d, Existing)
  /\ cmd' = Command("copy", t, start, <<>>)

(* The target is created once the source is open, beginning at the start. *)
CopyOpensTarget ==
  /\ cmd.kind = "copy" /\ cmd.to # NoDir
  /\ at[Source] = "open"
  /\ LET first == IF cmd.start = NoStart THEN mem[Source].min ELSE cmd.start
     IN /\ OpenIndex(Target, cmd.to, Fresh(first, 0))
        /\ cmd' = [cmd EXCEPT !.to = NoDir, !.next = first]

Copying == cmd.kind = "copy" /\ cmd.to = NoDir /\ at[Target] = "open"

(* What read_block finds at the next height (above the bound: nothing). *)
NextRead == IF cmd.next > MaxHeight THEN NoBlock ELSE Read(Source, cmd.next)

(* Faulty variant: goes on to the next height where there is no block. *)
CopyOverGaps ==
  /\ Copying
  /\ \/ NextRead \notin {NoBlock, Failure} /\ Write(Target, cmd.next, NextRead)
     \/ NextRead = NoBlock /\ cmd.next < MaxHeight /\ UNCHANGED lvars
  /\ cmd' = [cmd EXCEPT !.next = @ + 1]

CopyBlock ==
  /\ Copying
  /\ NextRead \notin {NoBlock, Failure}
  /\ Write(Target, cmd.next, NextRead)
  /\ cmd' = [cmd EXCEPT !.next = @ + 1]

(* The first height without a block, or an error, ends the copy. *)
CopyEnds ==
  /\ Copying
  /\ NextRead \in {NoBlock, Failure} \/ ~CanWrite(Target, cmd.next)
  /\ Close({Source, Target})
  /\ Done

-----------------------------------------------------------------------------
(* import. *)

(* The keys of one kind from the start on, in the order of LevelDB, for a
   database with one block per height (the hash in a key is not looked at). *)
Stream(T, start) ==
  LET keys == {h \in T : h >= start}
  IN CHOOSE q \in [1 .. Cardinality(keys) -> keys] :
       \A i, j \in 1 .. Cardinality(keys) : i < j => q[i] < q[j]

(* Bodies and headers, and receipts if they were asked for. *)
StartImport(t, m, start, tables) ==
  /\ cmd = NoCommand
  /\ OpenIndex(Target, t, Fresh(m, 0))
  /\ cmd' = [Command("import", NoDir, start,
                     [k \in DOMAIN tables |-> Stream(tables[k], start)]) EXCEPT !.next = 1]

Importing == cmd.kind = "import" /\ at[Target] = "open"

(* zip: one more key in every stream (after the last one comes a key of   *)
(* another kind, or none).                                                *)
KeysLeft == \A k \in DOMAIN cmd.streams : cmd.next <= Len(cmd.streams[k])

Keys == [k \in DOMAIN cmd.streams |-> cmd.streams[k][cmd.next]]

(* Faulty variant: takes the streams to be in step. *)
HeightsAssumed == TRUE

HeightsMatch == \A k \in DOMAIN Keys : Keys[k] = Keys[1]

ImportBlock ==
  /\ Importing
  /\ KeysLeft
  /\ HeightsMatch
  /\ Write(Target, Keys[1], Range(Keys))
  /\ cmd' = [cmd EXCEPT !.next = @ + 1]

(* The end of a stream, keys of different heights, or a write error. *)
ImportEnds ==
  /\ Importing
  /\ \/ ~KeysLeft
     \/ KeysLeft /\ ~HeightsMatch
     \/ KeysLeft /\ HeightsMatch /\ ~CanWrite(Target, Keys[1])
  /\ Close({Target})
  /\ Done

-----------------------------------------------------------------------------
(* An open failed: the command returns the error and drops what is open. *)
GivesUp ==
  /\ \/ cmd.kind \in {"get", "copy"} /\ at[Source] = "idle"
     \/ cmd.kind \in {"copy", "import"} /\ cmd.to = NoDir /\ at[Target] = "idle"
  /\ Close({s \in {Source, Target} : at[s] = "open"})
  /\ Done

ToolDies == cmd # NoCommand /\ Crash({Source, Target}) /\ Done

ToolStep ==
  \/ \E d \in Dirs : StartGet(d)
  \/ \E d, t \in Dirs, h \in {NoStart} \union Starts : StartCopy(d, t, h)
  \/ \E t \in Dirs, m \in MinHeights, h \in {NoStart} \union Starts, B, H, R \in Tables :
       StartImport(t, m, h, <<B, H>>) \/ StartImport(t, m, h, <<B, H, R>>)
  \/ GetReturns \/ CopyOpensTarget \/ CopyBlock \/ CopyEnds
  \/ ImportBlock \/ ImportEnds \/ GivesUp \/ ToolDies

TNext ==
  \/ UserStep
  \/ ToolStep
  \/ \E s \in Sessions : OpenStep(s) /\ UNCHANGED cmd

TSpec == TInit /\ [][TNext]_tvars

-----------------------------------------------------------------------------
(***************************************************************************)
(* A copy is exact at every instant: the target holds the blocks of the    *)
(* source from the start to the height before the one copied next, and     *)
(* there is no gap among them.  Nobody can change either store meanwhile.  *)
(***************************************************************************)
CopyExact ==
  Copying => \A h \in mem[Target].min .. MaxHeight :
    IF h < cmd.next
    THEN Read(Target, h) = Read(Source, h) /\ Read(Target, h) # NoBlock
    ELSE Read(Target, h) = NoBlock

(***************************************************************************)
(* An import holds exactly the blocks whose keys were met so far, each put *)
(* together from parts of its own height ("Validates that all three        *)
(* streams (header/body/receipts) have matching heights").                 *)
(***************************************************************************)
ImportExact ==
  Importing => \A h \in mem[Target].min .. MaxHeight :
    Read(Target, h) =
      IF \E i \in 1 .. cmd.next - 1 : cmd.streams[1][i] = h
      THEN {h} ELSE NoBlock

=============================================================================
