-------------------------------- MODULE Wire --------------------------------
(***************************************************************************)
(* The bytes of one share from the pool and back: mining.notify is decoded  *)
(* (src/src/stratum/message.cpp), the header is laid out and its nonce set  *)
(* (src/src/bitcoin/block_header.cpp, hash.cpp), and mining.submit carries  *)
(* what the pool needs to build the same header.                            *)
(*                                                                          *)
(* Abstractions.  A header is the record of its fields, each a sequence of  *)
(* bytes; a hexadecimal digit has half the bits of a byte.  The entries of   *)
(* a Merkle branch are nodes, sent as they are.                             *)
(***************************************************************************)
EXTENDS Work

CONSTANTS WordBytes,   \* 4: the bytes of a uint32_t
          HashWords    \* 8: the words of a hash

ASSUME WireAssumption ==
    WordBytes \in Nat \ {0} /\ HashWords \in Nat \ {0} /\ ByteBits % 2 = 0

HexBase == Pow2[ByteBits \div 2]
Words   == 0 .. Pow2[ByteBits * WordBytes] - 1
Bytes   == 0 .. ByteBase - 1

(* toHex() and fromHex(); a digit that is none is HexBase.                  *)
ToHex(bytes) ==
    [i \in 1 .. 2 * Len(bytes) |->
       LET byte == bytes[(i + 1) \div 2]
       IN  IF i % 2 = 1 THEN byte \div HexBase ELSE byte % HexBase]

IsHex(hex) == Len(hex) % 2 = 0 /\ \A i \in DOMAIN hex : hex[i] < HexBase
FromHex(hex) == [i \in 1 .. Len(hex) \div 2 |-> HexBase * hex[2 * i - 1] + hex[2 * i]]
IsHexOf(hex, size) == IsHex(hex) /\ Len(hex) = 2 * size

(* toBigEndianHex32(), parseBigEndianHex32() and writeLE32().               *)
BigEndian(word) == [i \in 1 .. WordBytes |-> (word \div Pow2[ByteBits * (WordBytes - i)]) % ByteBase]
WriteLE32(word) == Reverse(BigEndian(word))
ToBigEndianHex32(word) == ToHex(BigEndian(word))
ParseBigEndianHex32(hex) ==
    LET bytes == FromHex(hex)
        word[n \in 0 .. Len(bytes)] == IF n = 0 THEN 0 ELSE ByteBase * word[n - 1] + bytes[n]
    IN  word[Len(bytes)]

(* Wrong form: the bytes of the whole hash the other way round, as hashes   *)
(* are displayed.                                                           *)
SwapAllBytes(hash) == Reverse(hash)

(* swapWordBytes(): the bytes of each word the other way round.             *)
SwapWordBytes(hash) ==
    [i \in DOMAIN hash |->
       LET word == (i - 1) \div WordBytes
       IN  hash[2 * word * WordBytes + WordBytes + 1 - i]]

PrevHashFromStratumHex(hex) == SwapWordBytes(FromHex(hex))

(* parseNotify(): a job, or nothing if any field is not what it must be; the *)
(* extranonce1 of the session comes with it (handleMessage()).  A message    *)
(* here has all its parameters, and its branch is one of hashes.             *)
Decodes(params) ==
    /\ params.jobId # ""
    /\ IsHexOf(params.prevhash, WordBytes * HashWords)
    /\ IsHex(params.coinb1) /\ IsHex(params.coinb2)
    /\ \A field \in {params.version, params.nbits, params.ntime} : IsHexOf(field, WordBytes)

ParseNotify(params, extranonce1) ==
    [jobId             |-> params.jobId,
     previousBlockHash |-> PrevHashFromStratumHex(params.prevhash),
     coinbase1         |-> FromHex(params.coinb1),
     extranonce1       |-> extranonce1,
     coinbase2         |-> FromHex(params.coinb2),
     branch            |-> params.branch,
     version           |-> ParseBigEndianHex32(params.version),
     bits              |-> ParseBigEndianHex32(params.nbits),
     nTime             |-> ParseBigEndianHex32(params.ntime)]

(* BlockHeader::serializeInto() of the work, and setHeaderNonce().          *)
SerializeInto(job, merkleRoot) ==
    [version   |-> WriteLE32(job.version),
     previous  |-> job.previousBlockHash,
     root      |-> merkleRoot,
     timestamp |-> WriteLE32(job.nTime),
     bits      |-> WriteLE32(job.bits),
     nonce     |-> WriteLE32(0)]
SetHeaderNonce(header, nonce) == [header EXCEPT !.nonce = WriteLE32(nonce)]

(* What the worker hashes for a nonce, and what handleFoundNonce() submits. *)
Hashed(job, extranonce2, nonce) ==
    LET root == MerkleRootFromBranch(BuildCoinbase(job, extranonce2), job.branch)
    IN  SetHeaderNonce(SerializeInto(job, root), nonce)

BuildSubmit(job, extranonce2, nonce) ==
    [jobId       |-> job.jobId,
     extranonce2 |-> ToHex(extranonce2),
     ntime       |-> ToBigEndianHex32(job.nTime),
     nonce       |-> ToBigEndianHex32(nonce)]

-----------------------------------------------------------------------------
(* The pool's side, after the Stratum protocol: the block that it announces, *)
(* and the header it checks a share by.                                     *)
WordSwapped(hash) ==
    FlattenSeq([w \in 1 .. HashWords |->
                  Reverse(SubSeq(hash, WordBytes * (w - 1) + 1, WordBytes * w))])

PoolNotify(block) ==
    [jobId    |-> block.jobId,
     prevhash |-> ToHex(WordSwapped(block.previous)),
     coinb1   |-> ToHex(block.coinbase1),
     coinb2   |-> ToHex(block.coinbase2),
     branch   |-> block.branch,
     version  |-> ToHex(Reverse(block.version)),
     nbits    |-> ToHex(Reverse(block.bits)),
     ntime    |-> ToHex(Reverse(block.timestamp))]

PoolHeader(block, extranonce1, submit) ==
    [version   |-> block.version,
     previous  |-> block.previous,
     root      |-> MerkleRootFromBranch(
                     block.coinbase1 \o extranonce1 \o FromHex(submit.extranonce2)
                       \o block.coinbase2, block.branch),
     timestamp |-> Reverse(FromHex(submit.ntime)),
     bits      |-> block.bits,
     nonce     |-> Reverse(FromHex(submit.nonce))]

-----------------------------------------------------------------------------
(* The header that the pool builds from a submission is the one that was    *)
(* hashed, byte for byte.                                                   *)
ThePoolAgrees(block, extranonce1, extranonce2, nonce) ==
    LET params == PoolNotify(block)
        job    == ParseNotify(params, extranonce1)
        submit == BuildSubmit(job, extranonce2, nonce)
    IN  /\ Decodes(params) /\ submit.jobId = block.jobId
        /\ PoolHeader(block, extranonce1, submit) = Hashed(job, extranonce2, nonce)
=============================================================================
