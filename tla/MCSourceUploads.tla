--------------------------- MODULE MCSourceUploads ---------------------------
(* SourceUploads for TLC: small limits, and files that are wrong in one way each. *)
EXTENDS SourceUploads

Form(plain, kind, signature) == [plain |-> plain, kind |-> kind, signature |-> signature]

MCForms == {Form(TRUE, "pdf", "pdf"), Form(TRUE, "office", "package"),
            Form(TRUE, "office", "pdf"), Form(TRUE, "other", "package"),
            Form(FALSE, "pdf", "pdf")}
=============================================================================
