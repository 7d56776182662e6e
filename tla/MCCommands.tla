------------------------------ MODULE MCCommands ------------------------------
(***************************************************************************)
(* A small instance of Commands: two processes, a receipt of two artifacts *)
(* under two names, one of version 1.0.0, and keys of both algorithms.     *)
(***************************************************************************)
EXTENDS Commands

w(value) == Argument("word", Missing, value)
o(key) == Argument("option", key, Missing)
l(key) == Argument("letter", key, Missing)
a(key, value) == Argument("assigned", key, value)
End == Argument("end", Missing, "--")
Short == Argument("short", "x", Missing)

MCCommandLines ==
  {<<w("keygen"), a("algo", "Ed25519"), o("out"), w("new.json")>>,
   <<w("keygen"), o("out"), w("key.json"), o("out"), w("new.json")>>,
   <<w("keygen")>>, <<w("keygen"), l("h")>>, <<w("keygen"), o("h")>>,
   <<w("attest"), o("key-file"), w("new.json"), o("algo"), w("Ed25519"), a("files", "a"),
     a("out", "new.svg")>>,
   <<w("attest"), o("key"), w("k1"), l("f"), w("a,b"), a("badge", "new.svg")>>,
   <<o("require-trusted-v2"), w("verify"), w("proof.json"), a("key", "k1"), a("algo", "HMAC-SHA256"),
     o("check-files")>>,
   <<w("verify"), o("proof"), w("old.json"), a("key", "k1"), a("algorithm", "HMAC-SHA256"),
     o("require-trusted-v2")>>,
   <<w("verify"), w("proof.json"), o("require-trusted-v2")>>,
   <<w("verify"), w("proof.json"), o("keyFile"), w("key.json"), o("algo"), w("HMAC-SHA256"),
     o("require-trusted-v2")>>,
   <<w("badge"), o("compact"), o("out"), w("alias.json")>>,
   <<w("export"), w("proof.json"), a("out", "new.svg"), a("format", "html")>>,
   <<w("inspect"), End, w("proof.json")>>,
   <<w("verify"), o("proof")>>, <<w("inspect"), o("out")>>, <<Short>>, <<o("help")>>, <<w("other")>>,
   <<w("")>>, <<w(""), w("inspect")>>,
   <<w("attest"), a("key", "k1"), a("algo", "Ed448")>>,
   <<w("attest"), o("key-file"), w("b"), o("algo"), w("Ed25519"), a("files", "a")>>,
   <<w("verify"), w("new.svg"), a("key", "k2 public"), a("algo", "Ed25519"), o("require-trusted-v2")>>,
   <<w("attest"), a("key", "k2"), a("algo", "Ed25519"), a("out", "new.svg")>>}

MCInlineKeys == "k1" :> Material("k1") @@ "k2" :> Material("k2") @@ "k2 public" :> PublicHalf(Material("k2"))


MCFileLists == [value \in {"a", "a,b"} |-> IF value = "a" THEN <<"a">> ELSE <<"a", "b">>]

MCPaths == {"proof.json", "alias.json", "old.json", "key.json", "new.json", "new.svg", "a", "b"}
CONSTANTS i1, i2, i3, i4, i5, i6, i7, i8, i9
MCLinks ==
  [path \in MCPaths |->
     CASE path \in {"proof.json", "alias.json"} -> i1
       [] path = "old.json" -> i2
       [] path = "key.json" -> i3
       [] path = "a" -> i4
       [] path = "b" -> i5
       [] OTHER -> Missing]

Data(path) == IF path = "a" THEN <<"x", "y", "z">> ELSE <<"y">>
ReceiptOf(version, paths) ==
  [version |-> version, key |-> Material("k1"), algorithm |-> "HMAC-SHA256", changed |-> FALSE,
   artifacts |-> [at \in DOMAIN paths |-> [path |-> paths[at], cells |-> Data(paths[at])]]]

MCContents ==
  [i \in {i1, i2, i3, i4, i5} |->
     CASE i = i1 -> <<"receipt", ReceiptOf("2.0.0", <<"a", "b">>)>>
       [] i = i2 -> <<"receipt", ReceiptOf("1.0.0", <<"a">>)>>
       [] i = i3 -> <<"key", [algorithm |-> "HMAC-SHA256", id |-> "k1"]>>
       [] i = i4 -> <<"cells", Data("a")>>
       [] i = i5 -> <<"cells", Data("b")>>]
=============================================================================
