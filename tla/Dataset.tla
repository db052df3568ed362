------------------------------- MODULE Dataset -------------------------------
(* A data set: C++ programs write it with include/JsonDataset.hpp, one at a  *)
(* time, Python programs read it with load_msgpack_dataset of                *)
(* scripts/log_plot_helpers.py, which keeps a pickle of what it read, and    *)
(* C++ programs with load_msg.  A record is named by its number; a record    *)
(* that is being written, or was when its writer died, is Torn.  The objects *)
(* in a record, the same in all, go through JSON as Conversions says.        *)
EXTENDS Conversions

CONSTANTS Shapes,    \* the sets of objects that a record may be made of
          Loaders,   \* programs that read, several at a time
          MaxRecords, Torn, None

(* What a load returns, and what may come of a file that is spoilt: anything. *)
Result(records, look) == [records |-> records, at |-> look, junk |-> FALSE]
Junk == [Result(<<>>, <<>>) EXCEPT !.junk = TRUE]

DatasetAssumption ==
  /\ MaxRecords \in Nat /\ {Torn, None} \cap Nat = {} /\ None \notin Shapes /\ Torn # Junk
  /\ \A s \in Shapes : \A o \in s : IsObject(o)

VARIABLES shape,   \* the objects in each record of the data set, None before the first
          n,       \* records written
          file,    \* the .msg file
          writing, \* a write is under way
          whole,   \* the records of the writes that have returned, ...
          past,    \* ... and what they have been
          pickle,  \* the cached result, Torn, or None if there is no file
          doing,   \* doing[l]: idle, cached (reads the pickle), load (reads the
                   \* file), frame (has read it), save (writes the pickle), msg (load_msg)
          got,     \* got[l]: the records that it has read so far
          spoilt,  \* loaders that have met a torn record, or a file of two writers
          loaded,  \* what the load returned that ended with the last step, None if
                   \* it raised or none did: the records, and what is found at
                   \* each place of each object
          harmed   \* a writer died, or a file was opened to be written from its
                   \* beginning while another wrote or read it

vars == <<shape, n, file, writing, whole, past, pickle, doing, got, spoilt, loaded, harmed>>
files == <<shape, n, file, writing, whole, past>>

Init ==
  /\ shape = None /\ n = 0 /\ file = <<>> /\ writing = FALSE /\ whole = <<>> /\ past = {<<>>}
  /\ pickle = None /\ loaded = None /\ harmed = FALSE
  /\ doing = [l \in Loaders |-> "idle"] /\ got = [l \in Loaders |-> <<>>] /\ spoilt = {}

(* Mutant: opened without std::ios::app. *)
OpenedTruncating(append) == <<>>

(* What an open leaves of the file: all of it in dump_msg_append. *)
Opened(append) == IF append THEN file ELSE <<>>

In(what) == {l \in Loaders : doing[l] \in what}

(* A loader whose file is truncated while it is in it may find anything.     *)
Write(append, s) ==
  /\ ~writing /\ n < MaxRecords /\ n' = n + 1 /\ writing' = TRUE
  /\ shape \in {None, s} /\ shape' = s
  /\ file' = Append(Opened(append), Torn)
  /\ whole' = (IF append THEN whole ELSE <<>>) /\ past' = past \cup {whole'}
  /\ LET L == IF append THEN {} ELSE In({"load", "msg"})
     IN  spoilt' = spoilt \cup L /\ harmed' = (harmed \/ L # {})
  /\ loaded' = None /\ UNCHANGED <<pickle, doing, got>>

Written ==
  /\ writing /\ writing' = FALSE /\ file' = [file EXCEPT ![Len(file)] = n]
  /\ whole' = Append(whole, n) /\ past' = past \cup {whole'}
  /\ loaded' = None /\ UNCHANGED <<shape, n, pickle, doing, got, spoilt, harmed>>

WriterDies ==
  /\ writing /\ writing' = FALSE /\ harmed' = TRUE
  /\ loaded' = None /\ UNCHANGED <<shape, n, file, whole, past, pickle, doing, got, spoilt>>

Go(l, to) == doing' = [doing EXCEPT ![l] = to]
Begin(l, to) ==
  /\ doing[l] = "idle" /\ Go(l, to) /\ loaded' = None /\ UNCHANGED <<files, pickle, got, spoilt, harmed>>
Return(l) ==
  /\ Go(l, "idle") /\ got' = [got EXCEPT ![l] = <<>>] /\ spoilt' = spoilt \ {l} /\ UNCHANGED <<files, harmed>>

(* A pickle that there is, whole or not, is taken for the data set. *)
OpenPickle(l) == pickle # None /\ Begin(l, "cached")
LoadCached(l) ==
  /\ doing[l] = "cached" /\ Return(l) /\ UNCHANGED pickle
  /\ \/ loaded' = IF pickle = Torn THEN None ELSE pickle
     \/ (l \in spoilt \/ pickle = Junk) /\ loaded' \in {None, Junk}

(* Else the unpacker reads the file in chunks, while a writer goes on.  It   *)
(* stops before an incomplete last record; one in the midst swallows bytes   *)
(* of the next, and what comes of the rest is anybody's guess.               *)
Open(l) == pickle = None /\ n > 0 /\ Begin(l, "load")
Unpack(l) ==
  /\ doing[l] = "load" /\ l \notin spoilt /\ Len(got[l]) < Len(file)
  /\ LET i == Len(got[l]) + 1
     IN  \/ file[i] # Torn /\ got' = [got EXCEPT ![l] = Append(@, file[i])] /\ UNCHANGED spoilt
         \/ file[i] = Torn /\ i < Len(file) /\ spoilt' = spoilt \cup {l} /\ UNCHANGED got
  /\ loaded' = None /\ UNCHANGED <<files, pickle, doing, harmed>>
AtEnd(records) == \A i \in Len(records) + 1 .. Len(file) : i = Len(file) /\ file[i] = Torn
EndOfFile(l) ==
  /\ doing[l] = "load" /\ (l \in spoilt \/ AtEnd(got[l])) /\ Go(l, "frame")
  /\ loaded' = None /\ UNCHANGED <<files, pickle, got, spoilt, harmed>>

Framed(records) ==
  Result(records, IF records = <<>> THEN <<>> ELSE [o \in shape |-> Looked(Frame(to_json(o), o), o)])
Raises == \E o \in shape : FrameRaises(o)

FrameFails(l) ==
  /\ doing[l] = "frame" /\ (l \in spoilt \/ (Raises /\ got[l] # <<>>))
  /\ Return(l) /\ loaded' = None /\ UNCHANGED pickle

(* The pickle is opened to be written, whoever else does that or reads one   *)
(* that has appeared since, and written; the frame itself is returned.       *)
StartSave(l) ==
  /\ doing[l] = "frame" /\ (l \in spoilt \/ got[l] = <<>> \/ ~Raises) /\ Go(l, "save")
  /\ pickle' = (IF In({"save"}) = {} THEN Torn ELSE Junk) /\ spoilt' = spoilt \cup In({"cached"})
  /\ harmed' = (harmed \/ In({"cached", "save"}) # {})
  /\ loaded' = None /\ UNCHANGED <<files, got>>
Save(l) ==
  /\ doing[l] = "save" /\ Return(l) /\ loaded' = (IF l \in spoilt THEN Junk ELSE Framed(got[l]))
  /\ pickle' = (IF pickle = Torn THEN loaded' ELSE pickle)

LoaderDies(l) == doing[l] # "idle" /\ Return(l) /\ loaded' = None /\ UNCHANGED pickle

(* Named bound: a user deletes the pickle when nobody has it open.           *)
Discard ==
  /\ pickle # None /\ In({"cached", "save"}) = {} /\ pickle' = None
  /\ loaded' = None /\ UNCHANGED <<files, doing, got, spoilt, harmed>>

(* load_msg wants one record and nothing behind it; of a torn one there may  *)
(* be nothing yet.  from_json makes the objects of it again, where it can.   *)
Made(record) ==
  Result(<<record>>, [o \in {o \in shape : HasFromJson(o)} |-> from_json(to_json(o), o)])
OpenMsg(l) == n > 0 /\ Begin(l, "msg")
LoadMsg(l) ==
  /\ doing[l] = "msg" /\ Return(l) /\ UNCHANGED pickle
  /\ \/ /\ l \notin spoilt /\ file[1] # Torn /\ \A i \in 2 .. Len(file) : file[i] = Torn
        /\ loaded' = Made(file[1])
     \/ (l \in spoilt \/ file[1] = Torn \/ Len(file) > 1) /\ loaded' = None
     \/ (l \in spoilt \/ \E i \in 1 .. Len(file) - 1 : file[i] = Torn) /\ loaded' = Junk

Next ==
  \/ \E s \in Shapes : Write(TRUE, s) \/ Write(FALSE, s)
  \/ Written \/ WriterDies \/ Discard
  \/ \E l \in Loaders : \/ OpenPickle(l) \/ LoadCached(l) \/ Open(l) \/ Unpack(l) \/ EndOfFile(l) \/ FrameFails(l)
                        \/ StartSave(l) \/ Save(l) \/ LoaderDies(l) \/ OpenMsg(l) \/ LoadMsg(l)

Spec == Init /\ [][Next]_vars
-----------------------------------------------------------------------------
TypeOK ==
  LET Records == Seq(1 .. MaxRecords)
      Results == {r.records : r \in {pickle, loaded} \ {Torn, None}}
  IN  /\ shape \in Shapes \cup {None} /\ (shape = None) = (n = 0)
      /\ n \in 0 .. MaxRecords /\ writing \in BOOLEAN /\ harmed \in BOOLEAN
      /\ doing \in [Loaders -> {"idle", "cached", "load", "frame", "save", "msg"}]
      /\ got \in [Loaders -> Records] /\ spoilt \subseteq Loaders
      /\ file \in Seq(1 .. MaxRecords \cup {Torn}) /\ {whole} \cup past \cup Results \subseteq Records

(* A load that succeeds returns what the data set was at some moment, now or *)
(* earlier: never a mixture, a torn record or one that a crash cost, though  *)
(* it reads in steps while others write, save and keep a pickle; and each    *)
(* entry where it was in the object, by rows or by columns, but those of an  *)
(* Rn that the loader does not know.  It may be junk only after a writer has *)
(* died in a record, or dump_msg or another loader has truncated a file that *)
(* was in use.                                                               *)
Honest(r) ==
  IF r.junk THEN harmed
  ELSE /\ r.records \in past
       /\ r.records # <<>> =>
            \A o \in DOMAIN r.at : r.at[o] = Dumped(o) \/ (Dropped(o) /\ r.at[o] = <<>>)
LoadsSomePast == loaded # None => Honest(loaded)
=============================================================================
