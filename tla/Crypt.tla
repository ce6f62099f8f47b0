------------------------------- MODULE Crypt -------------------------------
(***************************************************************************)
(* The encryption of account configuration files.  Cryptography is         *)
(* symbolic: a derived key is the password and the salt it is made of, a   *)
(* box opens under the key and the nonce it was sealed with.  A file is    *)
(* the sequence of its lines; a line may be cut short by a write that was  *)
(* interrupted.  What the build does not define (comparing a version that  *)
(* sscanf did not fill, strtok without a string) is a choice, so decryption*)
(* gives the set of its possible results.                                  *)
(***************************************************************************)
EXTENDS Integers, Sequences

CONSTANT NULL

\* Texts are natural numbers.  The results that are no text:
ECRYPM == -1
EPASS == -2
EDECRYPT == -3
ENULL == -4
Crash == -5

\* What a line holds: of key, nonce and text, those it is made of.
Line(part, key, nonce, text) ==
    [part |-> part, key |-> key, nonce |-> nonce, text |-> text, whole |-> TRUE]

crypt_keyDerivation_base64(password, salt) ==
    [encryption_key |-> <<"encrypt", password, salt>>, hash_key |-> <<"hash", password, salt>>]

crypt_encryptWithKey(text, key, nonce) == Line("cipher", key, nonce, text)

\* The two random values, the salt and the nonce, are named by id.
crypt_encrypt(text, password, id) ==
    LET keys == crypt_keyDerivation_base64(password, id)
    IN  << Line("len", NULL, NULL, text), Line("nonce", NULL, id, NULL), Line("salt", NULL, id, NULL),
           Line("params", NULL, NULL, NULL), crypt_encryptWithKey(text, keys.encryption_key, id),
           Line("hash", keys.hash_key, NULL, NULL) >>

simpleVersionToVersionLine == Line("version", NULL, NULL, NULL)

encryptWithVersionLine(text, password, id) ==
    Append(crypt_encrypt(text, password, id), simpleVersionToVersionLine)

\* A length that belongs to another text may still be the right one.
crypt_decryptWithKey(info, key) ==
    LET box == info.cipher IN
    IF box.whole /\ info.nonce.whole /\ box.key = key /\ box.nonce = info.nonce.nonce
    THEN {box.text} \cup IF info.len.text = box.text THEN {} ELSE {EDECRYPT}
    ELSE {EDECRYPT}

\* Mutant: a wrong password is left to the box to find.
crypt_decrypt_base64_nohash(info, password) ==
    crypt_decryptWithKey(info, crypt_keyDerivation_base64(password, info.salt.nonce).encryption_key)

\* The hash is compared as far as the file has it: a cut one passes, unless
\* bytes of another line follow it.
crypt_decrypt_base64(info, password) ==
    LET keys == crypt_keyDerivation_base64(password, info.salt.nonce) IN
    IF ~info.salt.whole \/ info.hash.key # keys.hash_key THEN {EPASS}
    ELSE crypt_decryptWithKey(info, keys.encryption_key)

\* list_at gives NULL for a line that is not there.
crypt_decryptFromList(lines, password) ==
    CASE password = NULL -> {ENULL}
      [] password # NULL /\ Len(lines) < 6 -> {Crash}
      [] OTHER -> crypt_decrypt_base64([len |-> lines[1], nonce |-> lines[2], salt |-> lines[3],
                                        cipher |-> lines[5],
                                        hash |-> IF Len(lines) > 6 /\ ~lines[6].whole
                                                 THEN [lines[6] EXCEPT !.key = NULL] ELSE lines[6]], password)
-----------------------------------------------------------------------------
(* Files of versions before 2.1.0: one line, in hex.                       *)

\* The two parameter sets the line may have been encrypted with.
Legacy == {"libsodium18", "libsodium23"}

crypt_keyDerivation_hex(password, salt, params) == <<params, password, salt>>

crypt_encrypt_hex(text, password, id, params) ==
    << Line("hex", crypt_keyDerivation_hex(password, id, params), id, text) >>

crypt_decrypt_hex_withParams(line, password, params) ==
    IF line.whole /\ line.key = crypt_keyDerivation_hex(password, line.nonce, params)
    THEN {line.text} ELSE {EPASS}

\* Mutant: only the newer parameters are tried.
crypt_decrypt_hex_new(line, password) == crypt_decrypt_hex_withParams(line, password, "libsodium23")

crypt_decrypt_hex(line, password) ==
    LET res18 == crypt_decrypt_hex_withParams(line, password, "libsodium18")
    IN  IF res18 # {EPASS} THEN res18 ELSE crypt_decrypt_hex_withParams(line, password, "libsodium23")

\* Without a line strtok continues what it was given before; a line of the
\* new format has no colons; a cut line may lack parts.
decryptHexFileContent(lines, password) ==
    CASE lines = <<>> -> {ECRYPM, Crash}
      [] lines # <<>> /\ lines[1].part # "hex" -> {ECRYPM}
      [] lines # <<>> /\ lines[1].part = "hex" /\ password = NULL -> {Crash}
      [] OTHER -> crypt_decrypt_hex(lines[1], password) \cup IF lines[1].whole THEN {} ELSE {ECRYPM}
-----------------------------------------------------------------------------
\* Random base64 text is no version: sscanf may fill nothing, or a number.
\* The parameters and a cut version line leave less than five characters.
versionAtLeast(line) ==
    CASE line = NULL -> {FALSE}
      [] line # NULL /\ line.part = "version" -> {line.whole}
      [] line # NULL /\ line.part = "params" -> {FALSE}
      [] OTHER -> BOOLEAN

versionLineToSimpleVersion(lines) == IF Len(lines) > 1 THEN lines[Len(lines)] ELSE NULL

decryptLinesList(lines, password) ==
    UNION { IF new THEN crypt_decryptFromList(lines, password) ELSE decryptHexFileContent(lines, password)
            : new \in versionAtLeast(versionLineToSimpleVersion(lines)) }
-----------------------------------------------------------------------------
(* OpenPGP files, made and read by the gpg program.                        *)

encryptPGPWithVersionLine(text, key) ==
    << Line("begin", NULL, NULL, NULL), Line("body", key, NULL, text), Line("end", NULL, NULL, NULL),
       simpleVersionToVersionLine >>

isPGPMessage(lines) == lines # <<>> /\ lines[1].part = "begin" /\ lines[1].whole

Ends(lines) == \E i \in 1..Len(lines) : lines[i].part = "end" /\ lines[i].whole

gpg_d(lines) ==
    IF Len(lines) > 2 /\ lines[2].part = "body" THEN {lines[2].text} ELSE {EDECRYPT}

\* strchr is given what strstr did not find, or finds no end of that line.
decryptPGPFileContent(lines) ==
    CASE ~Ends(lines) -> {Crash}
      [] Ends(lines) /\ lines[Len(lines)].part = "end" -> {Crash} \cup gpg_d(lines)
      [] OTHER -> gpg_d(lines)

extractPGPKeyID(lines) ==
    IF Ends(lines) /\ Len(lines) > 2 /\ lines[2].part = "body" THEN lines[2].key ELSE NULL
=============================================================================
