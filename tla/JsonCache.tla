------------------------------ MODULE JsonCache ------------------------------
(***************************************************************************)
(* JsonCache: one file per name, holding data and the time they were       *)
(* written.  The model keeps the age of an entry instead of its time, up   *)
(* to the first age that is too old.                                       *)
(***************************************************************************)
EXTENDS Naturals

CONSTANT Ttl  \* the ttl_seconds of the readers, in steps of the clock

ASSUME JsonCacheAssumption == Ttl \in Nat

Ages == 0 .. Ttl + 1

NoFile == [kind |-> "absent"]
Garbage == [kind |-> "garbage"]  \* what a write that was cut short leaves
Entry(data, age) == [kind |-> "entry", data |-> data, age |-> age]

Files(Data) == {NoFile, Garbage} \cup [kind : {"entry"}, data : Data, age : Ages]

\* read() finds data.
fresh(file) == file.kind = "entry" /\ file.age <= Ttl

\* read() removes a file it cannot use.
file_read(file) == IF fresh(file) THEN file ELSE NoFile

\* write() truncates the file in place: it may fail to open it, and stop
\* half way.
file_written(file, data) == {file, Garbage, Entry(data, 0)}

\* Time passes.
older(age) == IF age > Ttl THEN age ELSE age + 1
file_older(file) == IF file.kind = "entry" THEN [file EXCEPT !.age = older(@)] ELSE file
=============================================================================
