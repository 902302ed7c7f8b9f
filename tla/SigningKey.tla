------------------------------ MODULE SigningKey ------------------------------
(* The device's signing key, created on first use (security/signing.py).    *)
(* The file outlives the process.  A key is named after the request that    *)
(* generated it; "empty" is the file between its creation and its writing.  *)
EXTENDS Integers

CONSTANT Maker

ASSUME MakerAssumption == {"absent", "empty"} \cap Maker = {}

VARIABLE keyFile

KeyInit == keyFile = "absent"

(* Slip: the exclusive creation is dropped.                                 *)
CreateKeyAnyway == keyFile' = "empty"

(* os.open with O_CREAT and O_EXCL, which fails if the file is there.       *)
CreateKey == keyFile' = IF keyFile = "absent" THEN "empty" ELSE keyFile

WriteKey(maker) == keyFile' = maker

Readable == keyFile \notin {"absent", "empty"}
=============================================================================
