---------------------------- MODULE SourceUploads ----------------------------
(***************************************************************************)
(* read_uploaded_sources of km_portal/uploads.py: the files of one request *)
(* are read one after the other, each up to one byte more than a file may  *)
(* have, closed, and counted against the limit of the whole request.       *)
(***************************************************************************)
EXTENDS Integers, Sequences, FiniteSetsExt

CONSTANTS
    MaxFiles,       \* MAX_SOURCE_FILES
    FileLimit,      \* MAX_SOURCE_FILE_BYTES
    TotalLimit,     \* MAX_TOTAL_SOURCE_BYTES
    Forms,          \* the names and first bytes files may have
    LargestFile,    \* bound: bytes a client may send in a file
    MostFiles       \* bound: files a client may send

ASSUME LimitsAssumption ==
    /\ MaxFiles \in Nat /\ FileLimit \in Nat /\ TotalLimit \in Nat
    /\ LargestFile \in Nat /\ MostFiles \in Nat
    /\ Forms \subseteq [plain : BOOLEAN, kind : {"pdf", "office", "other"},
                        signature : {"pdf", "package", "none"}]

VARIABLES
    reader,
    files,          \* the request's files
    index,          \* the file being read
    pending,        \* the bytes just read, not yet counted
    raised,         \* _read_upload raised
    total,          \* total_size
    sources,        \* the accepted files so far, by index
    closed          \* the files that are closed

uploadsVars == <<reader, files, index, pending, raised, total, sources, closed>>

\* A name is a plain file name or has a directory; its suffix says the kind; the
\* first bytes are a signature, or match none.
Uploads == [form : Forms, size : 0..LargestFile]

UploadsTypeOK ==
    /\ reader \in {"count", "read", "close", "accepted", "refused"}
    /\ files \in Seq(Uploads)
    /\ index \in Nat \ {0}
    /\ pending \in 0..(FileLimit + 1)
    /\ raised \in BOOLEAN
    /\ total \in Nat
    /\ sources \in Seq(1..Len(files))
    /\ closed \subseteq DOMAIN files

UploadsInit ==
    /\ \E n \in 0..MostFiles : files \in [1..n -> Uploads]
    /\ reader = "count"
    /\ index = 1
    /\ pending = 0 /\ raised = FALSE
    /\ total = 0
    /\ sources = <<>>
    /\ closed = {}

CountFiles ==
    /\ reader = "count"
    /\ reader' = IF Len(files) \in 1..MaxFiles THEN "read" ELSE "refused"
    /\ UNCHANGED <<files, index, pending, raised, total, sources, closed>>

\* Mutant: file.read() without a limit.
ReadableWhole(file) == file.size

\* file.read(MAX_SOURCE_FILE_BYTES + 1)
Readable(file) == IF file.size <= FileLimit THEN file.size ELSE FileLimit + 1

\* _validate_content_signature
Signed(file) ==
    \/ file.form.kind = "pdf" /\ file.form.signature = "pdf"
    \/ file.form.kind = "office" /\ file.form.signature = "package"

Named(file) == file.form.plain /\ file.form.kind # "other"

\* _read_upload: a file with a bad name is not read at all.
ReadUpload ==
    /\ reader = "read"
    /\ pending' = IF Named(files[index]) THEN Readable(files[index]) ELSE 0
    /\ raised' = ~(/\ Named(files[index])
                   /\ pending' > 0 /\ pending' <= FileLimit
                   /\ Signed(files[index]))
    /\ reader' = "close"
    /\ UNCHANGED <<files, index, total, sources, closed>>

\* Mutant: a file is closed only when its reading went well.
CloseUnlessRaised == IF raised THEN closed ELSE closed \union {index}

Closed == closed \union {index}

\* Mutant: the total is compared before this file is added to it.
OverLimitBefore == total > TotalLimit

OverLimit == total + pending > TotalLimit

\* The finally block, and what follows it in the loop.
CloseUpload ==
    /\ reader = "close"
    /\ closed' = Closed
    /\ IF raised \/ OverLimit
       THEN reader' = "refused" /\ UNCHANGED <<index, total, sources, pending>>
       ELSE /\ total' = total + pending
            /\ pending' = 0
            /\ sources' = Append(sources, index)
            /\ IF index < Len(files)
               THEN reader' = "read" /\ index' = index + 1
               ELSE reader' = "accepted" /\ UNCHANGED index
    /\ UNCHANGED <<files, raised>>

Answered == reader \in {"accepted", "refused"} /\ UNCHANGED uploadsVars

UploadsNext == CountFiles \/ ReadUpload \/ CloseUpload \/ Answered

UploadsSpec == UploadsInit /\ [][UploadsNext]_uploadsVars

----------------------------------------------------------------------------
(* Properties. *)

\* The bytes of all files together.
Sizes(uploads) ==
    LET size == [i \in DOMAIN uploads |-> uploads[i].size]
    IN  MapThenSumSet(LAMBDA i : size[i], DOMAIN uploads)

\* The request is accepted, whole and in its order, exactly when every file on
\* its own and all of them together keep within the limits: reading file by file
\* with early exits decides as a check of the whole request would.
AcceptsExactly ==
    reader \in {"accepted", "refused"} =>
        /\ reader = "accepted" <=>
              /\ Len(files) \in 1..MaxFiles
              /\ \A i \in DOMAIN files :
                    Named(files[i]) /\ Signed(files[i]) /\ files[i].size \in 1..FileLimit
              /\ Sizes(files) <= TotalLimit
        /\ reader = "accepted" => sources = [i \in DOMAIN files |-> i]

\* What the request holds in memory is bounded, whatever the client sends.
MemoryBounded == total + pending <= TotalLimit + FileLimit + 1

\* Every file that was read is closed when the request is answered, read well or not.
ReadFilesClosed ==
    reader \in {"accepted", "refused"} =>
        closed = IF Len(files) \in 1..MaxFiles THEN 1..index ELSE {}
=============================================================================
