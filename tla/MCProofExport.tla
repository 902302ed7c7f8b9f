------------------------------ MODULE MCProofExport ------------------------------
EXTENDS ProofExport

(* Outputs: a PDF, a twin of repetitive rows that deflate shrinks too much,  *)
(* and a video, whose annotated frames lie beyond its page count.            *)
Made(level, type, repetitive) ==
  [file_type |-> type, page_count |-> 1, privacy_level |-> level,
   synthetic_twin |-> level = 5, annotated |-> {0, 2}, repetitive |-> repetitive]
MCOutputs ==
  [pdf |-> Made(2, "PDF", FALSE), twin |-> Made(5, "DATASET", TRUE),
   clip |-> Made(2, "VIDEO", FALSE)]

Ask(name, kind, output) ==
  [name |-> name, kind |-> kind, output |-> output, format |-> "csv",
   outcomes |-> {"PASS", "INCONCLUSIVE"}, after |-> {}]
Then(names, r) == [r EXCEPT !.after = names]
As(format, r) == [r EXCEPT !.format = format]

(* Exports that meet a second verification or each other, packages of one    *)
(* output under two certificates and of two outputs, and each kind of export. *)
MCScenarios ==
  {{Ask("1", "verify", "pdf"), Ask("2", "verify", "pdf"), Ask("3", "proof-package", "pdf")},
   {Ask("1", "verify", "pdf"), Ask("2", "proof-package", "pdf"), Ask("3", "proof-package", "pdf")},
   {Ask("1", "verify", "pdf"), Then({"1"}, Ask("2", "verify", "clip")),
    Then({"1"}, Ask("3", "proof-package", "pdf")), Then({"2"}, Ask("4", "proof-package", "clip"))},
   {Ask("1", "verify", "pdf"), Then({"1"}, Ask("2", "proof-package", "pdf")),
    Then({"2"}, Ask("3", "verify", "pdf")), Then({"2"}, Ask("4", "proof-package", "pdf"))},
   {Ask("1", "verify", "pdf"), Ask("2", "certificate", "pdf"),
    Ask("3", "certificate.pdf", "pdf"), Ask("4", "annotated-export", "pdf")},
   {Ask("1", "verify", "clip"), Ask("2", "download", "clip"), Ask("3", "annotated-export", "clip")},
   {Ask("1", "verify", "pdf"), Ask("2", "proof-bundle", "pdf"), Ask("3", "download", "pdf")},
   {Ask("1", "verify", "twin"), Ask("2", "proof-package", "twin"),
    Ask("3", "synthetic-export", "twin")},
   {Ask("1", "verify", "twin"), As("json", Ask("2", "synthetic-export-receipt", "twin")),
    As("txt", Ask("3", "synthetic-export", "twin"))}}
=============================================================================
