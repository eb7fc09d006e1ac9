------------------------------ MODULE RowCodec ------------------------------
(***************************************************************************)
(* The layout of the values of the namespace: account rows, address rows   *)
(* and scopes, as the functions of db.go and account_info.go write them    *)
(* into bytes and read them back.  Offsets and lengths are those of the    *)
(* code; a value is put into the bucket and fetched from it.               *)
(***************************************************************************)
EXTENDS Naturals, Sequences

CONSTANTS
    Blobs,             \* encrypted keys, scripts and names: sequences of bytes
    Numbers,           \* values of a uint32
    AccountSchemas     \* address schemas that watch-only accounts are given

AddressTypes == 0 .. 7      \* PubKeyHash to TaprootScript
Schemas == [internal : AddressTypes, external : AddressTypes]

\* Bytes, and numbers below 2^32, which is more than TLC's integers can say.
ASSUME RowCodecAssumption ==
    /\ Blobs \subseteq Seq(0 .. 255)
    /\ Numbers \subseteq {n \in Nat : n \div 16777216 < 256}
    /\ AccountSchemas \subseteq Schemas

VARIABLES value, bytes, fetched

vars == <<value, bytes, fetched>>

-----------------------------------------------------------------------------
(***************************************************************************)
(* Parts.  LittleEndian.PutUint32, and a length followed by the bytes.     *)
(***************************************************************************)
uint32ToBytes(n) ==
    <<n % 256, (n \div 256) % 256, (n \div 65536) % 256, n \div 16777216>>

stringToBytes(s) == uint32ToBytes(Len(s)) \o s

Uint32(b, o) ==
    b[o + 1] + 256 * b[o + 2] + 65536 * b[o + 3] + 16777216 * b[o + 4]

\* The bytes with their length in front that begin at offset o, and the offset
\* behind them.
BlobAt(b, o) == SubSeq(b, o + 5, o + 4 + Uint32(b, o))
Behind(b, o) == o + 4 + Uint32(b, o)

Failed(err) == [kind |-> err]

ByteOf(flag) == IF flag THEN 1 ELSE 0

-----------------------------------------------------------------------------
(***************************************************************************)
(* Scopes: the key of a scope bucket and the address schema.               *)
(***************************************************************************)
\* A nil schema: no two bytes are read as this one.
NoSchema == [internal |-> 256, external |-> 256]

scopeToBytes(v) == uint32ToBytes(v.purpose) \o uint32ToBytes(v.coin)

scopeSchemaToBytes(schema) == <<schema.internal, schema.external>>
scopeSchemaFromBytes(b) == [internal |-> b[1], external |-> b[2]]

\* forEachKeyScope reads the key, fetchScopeAddrSchema the value it has in the
\* schema bucket; here they are one after the other.
fetchScope(b) ==
    [kind |-> "scope", purpose |-> Uint32(b, 0), coin |-> Uint32(b, 4),
     schema |-> scopeSchemaFromBytes(SubSeq(b, 9, 10))]

-----------------------------------------------------------------------------
(***************************************************************************)
(* Account rows.                                                           *)
(***************************************************************************)
accountDefault == 0
accountWatchOnly == 1

serializeAccountRow(acctType, raw) == <<acctType>> \o stringToBytes(raw)

serializeDefaultAccountRow(v) ==
    stringToBytes(v.pub) \o stringToBytes(v.priv)
      \o uint32ToBytes(v.external) \o uint32ToBytes(v.internal)
      \o stringToBytes(v.name)

serializeWatchOnlyAccountRow(v) ==
    stringToBytes(v.pub) \o uint32ToBytes(v.fingerprint)
      \o uint32ToBytes(v.external) \o uint32ToBytes(v.internal)
      \o stringToBytes(v.name)
      \o (IF v.schema = NoSchema THEN <<ByteOf(FALSE)>>
          ELSE <<ByteOf(TRUE)>> \o scopeSchemaToBytes(v.schema))

\* Slip: the two indexes are read in the other order.
deserializeDefaultSwapped(raw) ==
    LET priv == Behind(raw, 0)
        index == Behind(raw, priv)
    IN  IF Len(raw) < 20 THEN Failed("ErrDatabase")
        ELSE [kind |-> "default", pub |-> BlobAt(raw, 0),
              priv |-> BlobAt(raw, priv),
              external |-> Uint32(raw, index + 4),
              internal |-> Uint32(raw, index), name |-> BlobAt(raw, index + 8)]

deserializeDefaultAccountRow(raw) ==
    LET priv == Behind(raw, 0)
        index == Behind(raw, priv)
    IN  IF Len(raw) < 20 THEN Failed("ErrDatabase")
        ELSE [kind |-> "default", pub |-> BlobAt(raw, 0),
              priv |-> BlobAt(raw, priv),
              external |-> Uint32(raw, index),
              internal |-> Uint32(raw, index + 4), name |-> BlobAt(raw, index + 8)]

\* The reader goes on without the fingerprint; binary.Read fails at the end of
\* the bytes.
deserializeWatchOnlyAccountRow(raw) ==
    LET index == Behind(raw, 0)
        flag == Behind(raw, index + 8)
    IN  IF Len(raw) < 21 THEN Failed("ErrDatabase")
        ELSE IF flag >= Len(raw) THEN Failed("EOF")
        ELSE IF raw[flag + 1] # 0 /\ flag + 3 > Len(raw) THEN Failed("EOF")
        ELSE [kind |-> "watchOnly", pub |-> BlobAt(raw, 0), fingerprint |-> 0,
              external |-> Uint32(raw, index),
              internal |-> Uint32(raw, index + 4),
              name |-> BlobAt(raw, index + 8),
              schema |-> IF raw[flag + 1] = 0 THEN NoSchema
                         ELSE scopeSchemaFromBytes(SubSeq(raw, flag + 2, flag + 3))]

\* deserializeAccountRow, and the switch on the account type.
fetchAccountInfo(b) ==
    LET raw == BlobAt(b, 1)
    IN  IF Len(b) < 5 THEN Failed("ErrDatabase")
        ELSE IF b[1] = accountDefault THEN deserializeDefaultAccountRow(raw)
        ELSE IF b[1] = accountWatchOnly THEN deserializeWatchOnlyAccountRow(raw)
        ELSE Failed("ErrAccountNotFound")

-----------------------------------------------------------------------------
(***************************************************************************)
(* Address rows.  addTime is a uint64 and is left out of the values, not   *)
(* of the layout.  Only scripts are written: nothing calls the serializers *)
(* of imported keys and witness scripts, and no call gets as far as the    *)
(* one of chained addresses.                                               *)
(***************************************************************************)
adtChain == 0
adtImport == 1
adtScript == 2
adtWitnessScript == 3
adtTaprootScript == 4
addTime == <<0, 0, 0, 0, 0, 0, 0, 0>>

serializeScriptAddress(v) == stringToBytes(v.hash) \o stringToBytes(v.script)

deserializeChainedAddress(raw) ==
    IF Len(raw) # 8 THEN Failed("ErrDatabase")
    ELSE [kind |-> "chained", branch |-> Uint32(raw, 0), index |-> Uint32(raw, 4)]

deserializeImportedAddress(raw) ==
    IF Len(raw) < 8 THEN Failed("ErrDatabase")
    ELSE [kind |-> "imported", pub |-> BlobAt(raw, 0),
          priv |-> BlobAt(raw, Behind(raw, 0))]

deserializeScriptAddress(raw) ==
    IF Len(raw) < 8 THEN Failed("ErrDatabase")
    ELSE [kind |-> "script", hash |-> BlobAt(raw, 0),
          script |-> BlobAt(raw, Behind(raw, 0))]

deserializeWitnessScriptAddress(raw) ==
    IF Len(raw) < 10 THEN Failed("ErrDatabase")
    ELSE [kind |-> "witness", version |-> raw[1], secret |-> raw[2] = 1,
          hash |-> BlobAt(raw, 2), script |-> BlobAt(raw, Behind(raw, 2))]

serializeAddressRow(addrType, account, status, raw) ==
    <<addrType>> \o uint32ToBytes(account) \o addTime \o <<status>>
      \o stringToBytes(raw)

\* Slip: the check of the length as it was meant, at least 18 bytes.
fetchLongAddress(b) ==
    IF Len(b) < 18 THEN Failed("ErrDatabase")
    ELSE IF b[1] = adtScript THEN deserializeScriptAddress(BlobAt(b, 14))
    ELSE Failed("ErrDatabase")

\* Only a row of exactly 18 bytes, one without any data, is taken.
deserializeAddressRow(b) ==
    IF Len(b) # 18 THEN Failed("ErrDatabase")
    ELSE [kind |-> "address", addrType |-> b[1], rawData |-> BlobAt(b, 14)]

\* The switch on the address type has deserializers that want at least 8 bytes.
fetchAddress(b) ==
    LET row == deserializeAddressRow(b)
        raw == row.rawData
    IN  IF row.kind # "address" THEN row
        ELSE CASE row.addrType = adtChain -> deserializeChainedAddress(raw)
               [] row.addrType = adtImport -> deserializeImportedAddress(raw)
               [] row.addrType = adtScript -> deserializeScriptAddress(raw)
               [] row.addrType \in {adtWitnessScript, adtTaprootScript} ->
                     deserializeWitnessScriptAddress(raw)
               [] OTHER -> Failed("ErrDatabase")

-----------------------------------------------------------------------------
Scopes == [kind : {"scope"}, purpose : Numbers, coin : Numbers, schema : Schemas]
DefaultRows ==
    [kind : {"default"}, pub : Blobs, priv : Blobs, external : Numbers,
     internal : Numbers, name : Blobs]
WatchOnlyRows ==
    [kind : {"watchOnly"}, pub : Blobs, fingerprint : Numbers,
     external : Numbers, internal : Numbers, name : Blobs,
     schema : AccountSchemas \cup {NoSchema}]
Scripts == [kind : {"script"}, hash : Blobs, script : Blobs]

Nothing == Failed("none")

Init == value = Nothing /\ bytes = <<>> /\ fetched = Nothing

\* bbolt refuses a larger value (bucket.Put returns ErrValueTooLarge), and then
\* nothing is written.
MaxValueSize == 2147483646

Put(v, b) ==
    /\ Len(b) <= MaxValueSize
    /\ value' = v /\ bytes' = b /\ fetched' = Nothing
Fetch(kind, v) == value.kind = kind /\ fetched' = v /\ UNCHANGED <<value, bytes>>

putScope ==
    \E v \in Scopes : Put(v, scopeToBytes(v) \o scopeSchemaToBytes(v.schema))
putDefaultAccountInfo ==
    \E v \in DefaultRows :
        Put(v, serializeAccountRow(accountDefault, serializeDefaultAccountRow(v)))
putWatchOnlyAccountInfo ==
    \E v \in WatchOnlyRows :
        Put(v, serializeAccountRow(accountWatchOnly, serializeWatchOnlyAccountRow(v)))
\* The account index that putAddress writes too holds just uint32ToBytes of the
\* account.
putScriptAddress ==
    \E v \in Scripts, account \in Numbers, status \in 0 .. 2 :
        Put(v, serializeAddressRow(adtScript, account, status,
                                   serializeScriptAddress(v)))
Next ==
    \/ putScope \/ putDefaultAccountInfo \/ putWatchOnlyAccountInfo
    \/ putScriptAddress
    \/ Fetch("scope", fetchScope(bytes))
    \/ Fetch("default", fetchAccountInfo(bytes))
    \/ Fetch("watchOnly", fetchAccountInfo(bytes))
    \/ Fetch("script", fetchAddress(bytes))

Spec == Init /\ [][Next]_vars

-----------------------------------------------------------------------------
Reads(kinds) == value.kind \in kinds /\ fetched # Nothing => fetched = value

\* An account with its counters, keys and name, and a scope with its schema,
\* are read back as they were written, whatever the lengths of the keys and of
\* the name (account_info.go:216, 308; db.go:1120, 1136).
RowsRoundTrip == Reads({"default", "scope"})

\* No address that was stored is ever read back: putAddress writes 18 bytes and
\* the data, and deserializeAddressRow takes exactly 18 (db.go:859, 870).
AddressRowsRefused ==
    value.kind = "script" /\ fetched # Nothing => fetched = Failed("ErrDatabase")

-----------------------------------------------------------------------------
(* Facts about what is read and written, for the proofs.                   *)

\* What was put is what lies in the bucket.
Written ==
    /\ value.kind = "scope" =>
          /\ value \in Scopes
          /\ bytes = scopeToBytes(value) \o scopeSchemaToBytes(value.schema)
    /\ value.kind = "default" =>
          /\ value \in DefaultRows
          /\ bytes = serializeAccountRow(accountDefault, serializeDefaultAccountRow(value))
    /\ value.kind = "watchOnly" =>
          /\ value \in WatchOnlyRows
          /\ bytes = serializeAccountRow(accountWatchOnly, serializeWatchOnlyAccountRow(value))
    /\ value.kind = "script" =>
          /\ value \in Scripts
          /\ \E account \in Numbers, status \in 0 .. 2 :
                bytes = serializeAddressRow(adtScript, account, status,
                                            serializeScriptAddress(value))

\* Every part of a row is a byte: no length or number outgrows its four bytes,
\* because the bucket takes no row above MaxValueSize (db.go:1143, 1149).
RowsAreBytes == bytes \in Seq(0 .. 255)

\* A watch-only account row that is read at all is read shifted: the master key
\* fingerprint comes back as the number of external addresses, and that number
\* as the one of internal addresses (account_info.go:342).
WatchOnlyShifted ==
    fetched.kind = "watchOnly" =>
        /\ fetched.pub = value.pub
        /\ fetched.external = value.fingerprint /\ fetched.internal = value.external
=============================================================================
