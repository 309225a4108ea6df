------------------------- MODULE ContentCacheProofs -------------------------
(***************************************************************************)
(* TLAPS proofs about ContentCache: for any number of threads, files,      *)
(* temporary names, keys and chunks.                                       *)
(***************************************************************************)
EXTENDS ContentCache, SequenceTheorems, TLAPS

\* The steps of a fetch whose temporary file is still its own copy.
Fetching == {"copy", "haskey", "mkdir", "rename"}

\* Each running fetch knows its remote file, and its temporary file if any.
LocalsSet ==
    \A t \in Thread :
        /\ pc[t] # "idle" => file[t] \in File
        /\ pc[t] \in OwnsTemp => name[t] \in TempName
        /\ pc[t] \in {"idle", "tempfile"} => digest[t] = <<>>

\* Two running fetches never share a temporary file.
NamesDistinct ==
    \A t, u \in Thread :
        pc[t] \in OwnsTemp /\ pc[u] \in OwnsTemp /\ name[t] = name[u] => t = u

\* What was hashed is what was written.
TempHoldsDigest ==
    \A t \in Thread : pc[t] \in Fetching => temps[name[t]] = digest[t]

\* While copying, an immutable file has been read in order.
CopyIsPrefix ==
    \A t \in Thread :
        pc[t] = "copy" /\ file[t] \notin Mutable =>
            /\ Len(digest[t]) <= Len(Remote[file[t]])
            /\ \A i \in 1..Len(digest[t]) : digest[t][i] = Remote[file[t]][i]

\* Past the copy, an immutable file has been read entirely.
CopyIsWhole ==
    \A t \in Thread :
        pc[t] \in {"haskey", "mkdir", "rename"} /\ file[t] \notin Mutable =>
            digest[t] = Remote[file[t]]

\* A key about to be returned is published.
RetPublished ==
    \A t \in Thread :
        pc[t] = "remove" /\ ret[t] # Err =>
            /\ store[ret[t]] \in Content
            /\ file[t] \notin Mutable => store[ret[t]] = Remote[file[t]]

\* The inductive invariant of the content cache.
IInv ==
    /\ TypeOK
    /\ LocalsSet
    /\ NamesDistinct
    /\ TempHoldsDigest
    /\ CopyIsPrefix
    /\ CopyIsWhole
    /\ RetPublished
    /\ KeyMatchesContent
    /\ AckedRetrievable

-----------------------------------------------------------------------------
\* A content is a sequence of chunks of bounded length.
LEMMA ContentIsSeq ==
    ASSUME NEW c \in Content
    PROVE  /\ c \in Seq(Chunk)
           /\ Len(c) \in 0..MaxLen
           /\ c \in [1..Len(c) -> Chunk]
  <1>1. PICK n \in 0..MaxLen : c \in [1..n -> Chunk]
    BY DEF Content
  <1>2. n \in Nat
    BY <1>1, ConstantsAssumption
  <1>3. c \in Seq(Chunk) /\ Len(c) = n
    BY <1>1, <1>2
  <1> QED
    BY <1>1, <1>3

\* Appending a chunk to a content that is not full is a content again.
LEMMA AppendIsContent ==
    ASSUME NEW c \in Content, NEW x \in Chunk, Len(c) < MaxLen
    PROVE  /\ Append(c, x) \in Content
           /\ Len(Append(c, x)) = Len(c) + 1
           /\ Append(c, x)[Len(c) + 1] = x
           /\ \A i \in 1..Len(c) : Append(c, x)[i] = c[i]
  <1>1. c \in Seq(Chunk) /\ Len(c) \in 0..MaxLen
    BY ContentIsSeq
  <1>2. /\ Append(c, x) \in Seq(Chunk)
        /\ Len(Append(c, x)) = Len(c) + 1
        /\ Append(c, x)[Len(c) + 1] = x
        /\ \A i \in 1..Len(c) : Append(c, x)[i] = c[i]
    BY <1>1
  <1>3. Append(c, x) \in [1..(Len(c) + 1) -> Chunk]
    BY <1>2, LenProperties
  <1>4. Len(c) + 1 \in 0..MaxLen
    BY <1>1, ConstantsAssumption
  <1> QED
    BY <1>2, <1>3, <1>4 DEF Content

\* The empty sequence is a content.
LEMMA EmptyIsContent == <<>> \in Content
  <1>1. <<>> \in [1..0 -> Chunk]
    OBVIOUS
  <1>2. 0 \in 0..MaxLen
    BY ConstantsAssumption
  <1> QED
    BY <1>1, <1>2 DEF Content

\* Two contents that agree at every index are equal.
LEMMA ContentEqual ==
    ASSUME NEW c \in Content, NEW d \in Content,
           Len(c) = Len(d), \A i \in 1..Len(c) : c[i] = d[i]
    PROVE  c = d
  BY ContentIsSeq

-----------------------------------------------------------------------------
\* Publishing or looking up digests: MD5 of a content is a key.
LEMMA DigestIsKey ==
    ASSUME TypeOK, NEW t \in Thread
    PROVE  KeyOf(t) \in Key
  BY ConstantsAssumption DEF TypeOK, KeyOf

\* The invariant holds initially: nothing is stored, nothing is running.
LEMMA InitIInv == Init => IInv
  <1> SUFFICES ASSUME Init PROVE IInv
    OBVIOUS
  <1>1. TypeOK
    BY EmptyIsContent DEF Init, TypeOK
  <1> QED
    BY <1>1 DEF Init, IInv, LocalsSet, NamesDistinct, TempHoldsDigest,
                CopyIsPrefix, CopyIsWhole, RetPublished, KeyMatchesContent,
                AckedRetrievable, OwnsTemp, Fetching, HasKey

\* OpenRemote: a fetch starts with nothing copied.
LEMMA OpenRemoteIInv ==
    ASSUME IInv, NEW t \in Thread, NEW f \in File, OpenRemote(t, f)
    PROVE  IInv'
  <1> USE DEF IInv, OpenRemote, fsVars, historyVars
  <1>1. TypeOK'
    BY DEF TypeOK, OwnsTemp
  <1>2. LocalsSet'
    BY DEF TypeOK, LocalsSet, OwnsTemp
  <1>3. NamesDistinct' /\ TempHoldsDigest' /\ RetPublished'
    BY DEF TypeOK, NamesDistinct, TempHoldsDigest, RetPublished, OwnsTemp, Fetching
  <1>4. CopyIsPrefix' /\ CopyIsWhole'
    BY DEF TypeOK, CopyIsPrefix, CopyIsWhole
  <1>5. KeyMatchesContent' /\ AckedRetrievable'
    BY DEF KeyMatchesContent, AckedRetrievable, HasKey, GetFileForContents
  <1> QED
    BY <1>1, <1>2, <1>3, <1>4, <1>5

\* TempFile: the new temporary file is empty and nobody else's.
LEMMA TempFileIInv ==
    ASSUME IInv, NEW t \in Thread, TempFile(t)
    PROVE  IInv'
  <1> USE DEF IInv, TempFile, fsVars, historyVars
  <1>1. TypeOK'
    BY EmptyIsContent DEF TypeOK, OwnsTemp
  <1>2. LocalsSet'
    BY DEF TypeOK, LocalsSet, OwnsTemp
  <1>3. NamesDistinct'
    BY DEF TypeOK, NamesDistinct, OwnsTemp
  <1>4. TempHoldsDigest'
    BY DEF TypeOK, TempHoldsDigest, LocalsSet, OwnsTemp, Fetching
  <1>5. CopyIsPrefix'
    <2> SUFFICES ASSUME NEW u \in Thread, pc'[u] = "copy", file'[u] \notin Mutable
                 PROVE  /\ Len(digest'[u]) <= Len(Remote[file'[u]])
                        /\ \A i \in 1..Len(digest'[u]) :
                              digest'[u][i] = Remote[file'[u]][i]
      BY DEF CopyIsPrefix
    <2>1. CASE u = t
      <3>1. file'[u] \in File /\ digest'[u] = <<>>
        BY <2>1 DEF TypeOK, LocalsSet
      <3>2. Remote[file'[u]] \in Content
        BY <3>1, ConstantsAssumption
      <3>3. Len(Remote[file'[u]]) \in Nat
        BY <3>2, ContentIsSeq
      <3> QED
        BY <3>1, <3>3
    <2>2. CASE u # t
      BY <2>2 DEF TypeOK, CopyIsPrefix
    <2> QED
      BY <2>1, <2>2
  <1>6. CopyIsWhole' /\ RetPublished'
    BY DEF TypeOK, CopyIsWhole, RetPublished
  <1>7. KeyMatchesContent' /\ AckedRetrievable'
    BY DEF KeyMatchesContent, AckedRetrievable, HasKey, GetFileForContents
  <1> QED
    BY <1>1, <1>2, <1>3, <1>4, <1>5, <1>6, <1>7

\* A chunk that is read fits in the contents that are modelled.
LEMMA ReadChunkFits ==
    ASSUME IInv, NEW t \in Thread, pc[t] = "copy",
           NEW c \in ReadChunks(file[t], Len(digest[t]))
    PROVE  /\ c \in Chunk
           /\ Len(digest[t]) < MaxLen
           /\ file[t] \notin Mutable =>
                 /\ Len(digest[t]) < Len(Remote[file[t]])
                 /\ c = Remote[file[t]][Len(digest[t]) + 1]
  <1>1. digest[t] \in Content /\ file[t] \in File
    BY DEF IInv, TypeOK, LocalsSet
  <1>2. Len(digest[t]) \in Nat /\ MaxLen \in Nat
    BY <1>1, ContentIsSeq, ConstantsAssumption
  <1>3. CASE file[t] \in Mutable
    BY <1>3 DEF ReadChunks
  <1>4. CASE file[t] \notin Mutable
    <2>1. Remote[file[t]] \in Content
      BY <1>1, ConstantsAssumption
    <2>2. /\ Len(Remote[file[t]]) \in 0..MaxLen
          /\ Remote[file[t]] \in [1..Len(Remote[file[t]]) -> Chunk]
      BY <2>1, ContentIsSeq
    <2>3. /\ Len(digest[t]) + 1 \in 1..Len(Remote[file[t]])
          /\ c = Remote[file[t]][Len(digest[t]) + 1]
      BY <1>2, <1>4 DEF ReadChunks
    <2> QED
      BY <1>2, <2>2, <2>3
  <1> QED
    BY <1>3, <1>4

\* CopyChunk: the chunk reaches the file and the hash alike.
LEMMA CopyChunkIInv ==
    ASSUME IInv, NEW t \in Thread, CopyChunk(t)
    PROVE  IInv'
  <1> USE DEF IInv
  <1>0. PICK c \in ReadChunks(file[t], Len(digest[t])) :
          /\ temps' = [temps EXCEPT ![name[t]] = Append(@, c)]
          /\ digest' = [digest EXCEPT ![t] = Append(@, c)]
    BY DEF CopyChunk
  <1>a. /\ pc[t] = "copy"
        /\ UNCHANGED <<store, buckets, pc, file, name, ret, acked, orphans>>
    BY DEF CopyChunk, historyVars
  <1>b. /\ c \in Chunk
        /\ Len(digest[t]) < MaxLen
        /\ file[t] \notin Mutable =>
              /\ Len(digest[t]) < Len(Remote[file[t]])
              /\ c = Remote[file[t]][Len(digest[t]) + 1]
    BY <1>0, <1>a, ReadChunkFits
  <1>c. /\ digest[t] \in Content /\ name[t] \in TempName /\ file[t] \in File
        /\ temps[name[t]] = digest[t]
    BY <1>a DEF TypeOK, LocalsSet, TempHoldsDigest, OwnsTemp, Fetching
  <1> DEFINE new == Append(digest[t], c)
  <1>d. /\ new \in Content
        /\ Len(new) = Len(digest[t]) + 1
        /\ new[Len(digest[t]) + 1] = c
        /\ \A i \in 1..Len(digest[t]) : new[i] = digest[t][i]
    BY <1>b, <1>c, AppendIsContent
  <1>e. /\ temps' = [temps EXCEPT ![name[t]] = new]
        /\ digest' = [digest EXCEPT ![t] = new]
    BY <1>0, <1>c DEF TypeOK
  <1> HIDE DEF new
  <1>1. TypeOK'
    BY <1>a, <1>c, <1>d, <1>e DEF TypeOK
  <1>2. LocalsSet' /\ NamesDistinct'
    BY <1>a, <1>e DEF TypeOK, LocalsSet, NamesDistinct
  <1>3. TempHoldsDigest'
    BY <1>a, <1>c, <1>e DEF TypeOK, TempHoldsDigest, LocalsSet, NamesDistinct, OwnsTemp, Fetching
  <1>4. CopyIsPrefix'
    <2> SUFFICES ASSUME NEW u \in Thread, pc[u] = "copy", file[u] \notin Mutable
                 PROVE  /\ Len(digest'[u]) <= Len(Remote[file[u]])
                        /\ \A i \in 1..Len(digest'[u]) :
                              digest'[u][i] = Remote[file[u]][i]
      BY <1>a DEF CopyIsPrefix
    <2>1. CASE u = t
      <3>1. digest'[u] = new
        BY <2>1, <1>e DEF TypeOK
      <3>2. Len(digest[t]) \in Nat /\ Len(Remote[file[t]]) \in Nat
        BY <1>c, ContentIsSeq, ConstantsAssumption
      <3>3. \A i \in 1..Len(digest[t]) : digest[t][i] = Remote[file[t]][i]
        BY <2>1 DEF CopyIsPrefix
      <3> QED
        BY <1>b, <1>d, <2>1, <3>1, <3>2, <3>3
    <2>2. CASE u # t
      BY <2>2, <1>e DEF TypeOK, CopyIsPrefix
    <2> QED
      BY <2>1, <2>2
  <1>5. CopyIsWhole' /\ RetPublished'
    BY <1>a, <1>e DEF TypeOK, CopyIsWhole, RetPublished
  <1>6. KeyMatchesContent' /\ AckedRetrievable'
    BY <1>a DEF KeyMatchesContent, AckedRetrievable, HasKey, GetFileForContents
  <1> QED
    BY <1>1, <1>2, <1>3, <1>4, <1>5, <1>6

\* CopyEOF: an immutable file has been read to its end.
LEMMA CopyEOFIInv ==
    ASSUME IInv, NEW t \in Thread, CopyEOF(t)
    PROVE  IInv'
  <1> USE DEF IInv, CopyEOF, fsVars, historyVars
  <1>1. TypeOK'
    BY DEF TypeOK, OwnsTemp
  <1>2. LocalsSet' /\ NamesDistinct' /\ TempHoldsDigest'
    BY DEF TypeOK, LocalsSet, NamesDistinct, TempHoldsDigest, OwnsTemp, Fetching
  <1>3. CopyIsPrefix' /\ RetPublished'
    BY DEF TypeOK, CopyIsPrefix, RetPublished
  <1>4. CopyIsWhole'
    <2> SUFFICES ASSUME NEW u \in Thread, file[u] \notin Mutable,
                        pc'[u] \in {"haskey", "mkdir", "rename"}
                 PROVE  digest[u] = Remote[file[u]]
      BY DEF CopyIsWhole
    <2>1. CASE u = t
      <3>1. digest[t] \in Content /\ file[t] \in File
        BY DEF TypeOK, LocalsSet
      <3>2. Remote[file[t]] \in Content
        BY <3>1, ConstantsAssumption
      <3>3. Len(digest[t]) = Len(Remote[file[t]])
        BY <2>1 DEF ReadsEOF
      <3>4. \A i \in 1..Len(digest[t]) : digest[t][i] = Remote[file[t]][i]
        BY <2>1 DEF CopyIsPrefix
      <3> QED
        BY <2>1, <3>1, <3>2, <3>3, <3>4, ContentEqual
    <2>2. CASE u # t
      BY <2>2 DEF TypeOK, CopyIsWhole
    <2> QED
      BY <2>1, <2>2
  <1>5. KeyMatchesContent' /\ AckedRetrievable'
    BY DEF KeyMatchesContent, AckedRetrievable, HasKey, GetFileForContents
  <1> QED
    BY <1>1, <1>2, <1>3, <1>4, <1>5

\* CopyErr: the temporary file may now differ from the hash, but the fetch
\* only has its cleanup left.
LEMMA CopyErrIInv ==
    ASSUME IInv, NEW t \in Thread, CopyErr(t)
    PROVE  IInv'
  <1> USE DEF IInv, CopyErr, Fail, fsVars, historyVars
  <1>0. name[t] \in TempName /\ digest[t] \in Content /\ temps[name[t]] = digest[t]
    BY DEF TypeOK, LocalsSet, TempHoldsDigest, OwnsTemp, Fetching
  <1>1. PICK d \in Content : temps' = [temps EXCEPT ![name[t]] = d]
    <2>1. CASE UNCHANGED temps
      BY <1>0, <2>1 DEF TypeOK
    <2>2. ASSUME NEW c \in ReadChunks(file[t], Len(digest[t])),
                 temps' = [temps EXCEPT ![name[t]] = Append(@, c)]
          PROVE  \E d \in Content : temps' = [temps EXCEPT ![name[t]] = d]
      <3>1. c \in Chunk /\ Len(digest[t]) < MaxLen
        BY ReadChunkFits
      <3>2. Append(digest[t], c) \in Content
        BY <1>0, <3>1, AppendIsContent
      <3> QED
        BY <1>0, <2>2, <3>2 DEF TypeOK
    <2> QED
      BY <2>1, <2>2
  <1>2. TypeOK'
    BY <1>0, <1>1 DEF TypeOK, OwnsTemp
  <1>3. LocalsSet' /\ NamesDistinct'
    BY DEF TypeOK, LocalsSet, NamesDistinct, OwnsTemp
  <1>4. TempHoldsDigest'
    BY <1>0, <1>1 DEF TypeOK, TempHoldsDigest, LocalsSet, NamesDistinct, OwnsTemp, Fetching
  <1>5. CopyIsPrefix' /\ CopyIsWhole' /\ RetPublished'
    BY DEF TypeOK, CopyIsPrefix, CopyIsWhole, RetPublished
  <1>6. KeyMatchesContent' /\ AckedRetrievable'
    BY DEF KeyMatchesContent, AckedRetrievable, HasKey, GetFileForContents
  <1> QED
    BY <1>2, <1>3, <1>4, <1>5, <1>6

\* CheckKey: if the key is there, what it holds is what was fetched, because
\* digests do not collide.
LEMMA CheckKeyIInv ==
    ASSUME IInv, NEW t \in Thread, CheckKey(t)
    PROVE  IInv'
  <1> USE DEF IInv, CheckKey, Fail, fsVars, historyVars
  <1>0. KeyOf(t) \in Key /\ digest[t] \in Content
    BY DigestIsKey DEF TypeOK
  <1>1. TypeOK'
    BY <1>0 DEF TypeOK, OwnsTemp
  <1>2. LocalsSet' /\ NamesDistinct' /\ TempHoldsDigest'
    BY DEF TypeOK, LocalsSet, NamesDistinct, TempHoldsDigest, OwnsTemp, Fetching
  <1>3. CopyIsPrefix' /\ CopyIsWhole'
    BY DEF TypeOK, CopyIsPrefix, CopyIsWhole
  <1>4. HasKey(KeyOf(t)) => store[KeyOf(t)] \in Content /\ store[KeyOf(t)] = digest[t]
    BY <1>0, MD5CollisionFree DEF TypeOK, HasKey, KeyOf, KeyMatchesContent
  <1>5. RetPublished'
    BY <1>0, <1>4 DEF TypeOK, RetPublished, CopyIsWhole
  <1>6. KeyMatchesContent' /\ AckedRetrievable'
    BY DEF KeyMatchesContent, AckedRetrievable, HasKey, GetFileForContents
  <1> QED
    BY <1>1, <1>2, <1>3, <1>5, <1>6

\* Mkdir: only the set of buckets changes.
LEMMA MkdirIInv ==
    ASSUME IInv, NEW t \in Thread, Mkdir(t)
    PROVE  IInv'
  <1> USE DEF IInv, Mkdir, Fail, fsVars, historyVars
  <1>0. KeyOf(t) \in Key
    BY DigestIsKey
  <1>1. TypeOK'
    BY <1>0, ConstantsAssumption DEF TypeOK, OwnsTemp
  <1>2. LocalsSet' /\ NamesDistinct' /\ TempHoldsDigest'
    BY DEF TypeOK, LocalsSet, NamesDistinct, TempHoldsDigest, OwnsTemp, Fetching
  <1>3. CopyIsPrefix' /\ CopyIsWhole' /\ RetPublished'
    BY DEF TypeOK, CopyIsPrefix, CopyIsWhole, RetPublished
  <1>4. KeyMatchesContent' /\ AckedRetrievable'
    BY DEF KeyMatchesContent, AckedRetrievable, HasKey, GetFileForContents
  <1> QED
    BY <1>1, <1>2, <1>3, <1>4

\* Rename: what it publishes has the right digest, and replaces, if anything,
\* the same content.
LEMMA RenameIInv ==
    ASSUME IInv, NEW t \in Thread, Rename(t)
    PROVE  IInv'
  <1> USE DEF IInv
  <1>0. /\ pc[t] = "rename"
        /\ UNCHANGED <<buckets, file, name, digest, acked, orphans>>
    BY DEF Rename, historyVars
  <1>a. /\ KeyOf(t) \in Key /\ digest[t] \in Content /\ name[t] \in TempName
        /\ temps[name[t]] = digest[t] /\ MD5[digest[t]] = KeyOf(t)
    BY <1>0, DigestIsKey DEF TypeOK, LocalsSet, TempHoldsDigest, OwnsTemp, Fetching, KeyOf
  <1>1. CASE /\ store' = [store EXCEPT ![KeyOf(t)] = temps[name[t]]]
             /\ temps' = [temps EXCEPT ![name[t]] = NoFile]
             /\ ret' = [ret EXCEPT ![t] = KeyOf(t)]
             /\ pc' = [pc EXCEPT ![t] = "remove"]
    <2>a. store' = [store EXCEPT ![KeyOf(t)] = digest[t]]
      BY <1>1, <1>a
    <2>b. \A k \in Key : HasKey(k) => store'[k] = store[k]
      BY <1>a, <2>a, MD5CollisionFree DEF TypeOK, HasKey, KeyMatchesContent
    <2>c. \A k \in Key : store[k] \in Content => store'[k] = store[k]
      BY <2>b, ConstantsAssumption DEF HasKey
    <2>1. TypeOK'
      BY <1>0, <1>1, <1>a, <2>a DEF TypeOK, OwnsTemp
    <2>2. LocalsSet' /\ NamesDistinct'
      BY <1>0, <1>1 DEF TypeOK, LocalsSet, NamesDistinct, OwnsTemp
    <2>3. TempHoldsDigest'
      BY <1>0, <1>1, <1>a DEF TypeOK, TempHoldsDigest, LocalsSet, NamesDistinct, OwnsTemp, Fetching
    <2>4. CopyIsPrefix' /\ CopyIsWhole'
      BY <1>0, <1>1 DEF TypeOK, CopyIsPrefix, CopyIsWhole
    <2>5. RetPublished'
      <3> SUFFICES ASSUME NEW u \in Thread, pc'[u] = "remove", ret'[u] # Err
                   PROVE  /\ store'[ret'[u]] \in Content
                          /\ file[u] \notin Mutable => store'[ret'[u]] = Remote[file[u]]
        BY <1>0 DEF RetPublished
      <3>1. CASE u = t
        <4>1. ret'[t] = KeyOf(t) /\ store'[KeyOf(t)] = digest[t]
          BY <1>1, <1>a, <2>a DEF TypeOK
        <4> QED
          BY <1>0, <1>a, <3>1, <4>1 DEF CopyIsWhole
      <3>2. CASE u # t
        <4>1. ret'[u] = ret[u] /\ pc[u] = "remove" /\ ret[u] \in Key
          BY <1>1, <3>2 DEF TypeOK
        <4> QED
          BY <2>c, <4>1 DEF RetPublished
      <3> QED
        BY <3>1, <3>2
    <2>6. KeyMatchesContent'
      BY <1>a, <2>a DEF TypeOK, KeyMatchesContent, HasKey
    <2>7. AckedRetrievable'
      <3> SUFFICES ASSUME NEW p \in acked
                   PROVE  /\ GetFileForContents(p[2])' \in Content
                          /\ p[1] \notin Mutable => GetFileForContents(p[2])' = Remote[p[1]]
        BY <1>0 DEF AckedRetrievable
      <3>1. p[2] \in Key
        BY DEF TypeOK
      <3>2. HasKey(p[2])
        BY ConstantsAssumption DEF AckedRetrievable, GetFileForContents
      <3> QED
        BY <2>b, <3>1, <3>2 DEF AckedRetrievable, GetFileForContents, HasKey
    <2> QED
      BY <2>1, <2>2, <2>3, <2>4, <2>5, <2>6, <2>7
  <1>2. CASE Fail(t) /\ UNCHANGED <<store, temps>>
    <2> USE DEF Fail
    <2>1. TypeOK'
      BY <1>0, <1>2 DEF TypeOK, OwnsTemp
    <2>2. LocalsSet' /\ NamesDistinct' /\ TempHoldsDigest'
      BY <1>0, <1>2 DEF TypeOK, LocalsSet, NamesDistinct, TempHoldsDigest, OwnsTemp, Fetching
    <2>3. CopyIsPrefix' /\ CopyIsWhole' /\ RetPublished'
      BY <1>0, <1>2 DEF TypeOK, CopyIsPrefix, CopyIsWhole, RetPublished
    <2>4. KeyMatchesContent' /\ AckedRetrievable'
      BY <1>0, <1>2 DEF KeyMatchesContent, AckedRetrievable, HasKey, GetFileForContents
    <2> QED
      BY <2>1, <2>2, <2>3, <2>4
  <1> QED
    BY <1>1, <1>2 DEF Rename

\* Remove: the key that is returned is one that is published.
LEMMA RemoveIInv ==
    ASSUME IInv, NEW t \in Thread, Remove(t)
    PROVE  IInv'
  <1> USE DEF IInv
  <1>0. /\ pc[t] = "remove"
        /\ UNCHANGED <<store, buckets>>
        /\ pc' = [pc EXCEPT ![t] = "idle"]
        /\ file' = [file EXCEPT ![t] = NoFile]
        /\ name' = [name EXCEPT ![t] = NoFile]
        /\ digest' = [digest EXCEPT ![t] = <<>>]
        /\ ret' = [ret EXCEPT ![t] = Err]
        /\ acked' = IF ret[t] = Err THEN acked ELSE acked \union {<<file[t], ret[t]>>}
    BY DEF Remove, Return
  <1>a. name[t] \in TempName /\ file[t] \in File
    BY <1>0 DEF LocalsSet, OwnsTemp
  <1>b. /\ temps' = [temps EXCEPT ![name[t]] = NoFile] \/ temps' = temps
        /\ orphans' = orphans \/ orphans' = orphans \union {name[t]}
    BY DEF Remove
  <1>1. TypeOK'
    <2>1. /\ store' \in [Key -> Content \union {NoFile}]
          /\ temps' \in [TempName -> Content \union {NoFile}]
          /\ buckets' \subseteq Bucket
          /\ orphans' \subseteq TempName
      BY <1>0, <1>a, <1>b DEF TypeOK
    <2>2. /\ pc' \in [Thread -> {"idle", "tempfile"} \union OwnsTemp]
          /\ file' \in [Thread -> File \union {NoFile}]
          /\ name' \in [Thread -> TempName \union {NoFile}]
          /\ digest' \in [Thread -> Content]
          /\ ret' \in [Thread -> Key \union {Err}]
      BY <1>0, EmptyIsContent DEF TypeOK
    <2>3. acked' \subseteq File \X Key
      BY <1>0, <1>a DEF TypeOK
    <2> QED
      BY <2>1, <2>2, <2>3 DEF TypeOK
  <1>2. LocalsSet' /\ NamesDistinct'
    BY <1>0 DEF TypeOK, LocalsSet, NamesDistinct, OwnsTemp
  <1>3. TempHoldsDigest'
    BY <1>0, <1>a, <1>b DEF TypeOK, TempHoldsDigest, LocalsSet, NamesDistinct, OwnsTemp, Fetching
  <1>4. CopyIsPrefix' /\ CopyIsWhole' /\ RetPublished'
    BY <1>0 DEF TypeOK, CopyIsPrefix, CopyIsWhole, RetPublished
  <1>5. KeyMatchesContent'
    BY <1>0 DEF KeyMatchesContent, HasKey
  <1>6. AckedRetrievable'
    <2>1. \A k : GetFileForContents(k)' = GetFileForContents(k)
      BY <1>0 DEF GetFileForContents, HasKey
    <2>2. CASE ret[t] = Err
      BY <1>0, <2>1, <2>2 DEF AckedRetrievable
    <2>3. CASE ret[t] # Err
      <3>1. store[ret[t]] \in Content /\ (file[t] \notin Mutable => store[ret[t]] = Remote[file[t]])
        BY <1>0, <2>3 DEF RetPublished
      <3>2. GetFileForContents(ret[t]) = store[ret[t]]
        BY <3>1, ConstantsAssumption DEF GetFileForContents, HasKey
      <3>3. acked' = acked \union {<<file[t], ret[t]>>}
        BY <1>0, <2>3
      <3> SUFFICES ASSUME NEW p \in acked'
                   PROVE  /\ GetFileForContents(p[2]) \in Content
                          /\ p[1] \notin Mutable => GetFileForContents(p[2]) = Remote[p[1]]
        BY <2>1 DEF AckedRetrievable
      <3>4. CASE p \in acked
        BY <3>4 DEF AckedRetrievable
      <3>5. CASE p = <<file[t], ret[t]>>
        BY <3>1, <3>2, <3>5
      <3> QED
        BY <3>3, <3>4, <3>5
    <2> QED
      BY <2>2, <2>3
  <1> QED
    BY <1>1, <1>2, <1>3, <1>4, <1>5, <1>6

\* Crash: whatever was published stays published.
LEMMA CrashIInv ==
    ASSUME IInv, Crash
    PROVE  IInv'
  <1> USE DEF IInv, Crash, fsVars
  <1>1. TypeOK'
    BY EmptyIsContent DEF TypeOK
  <1>2. LocalsSet' /\ NamesDistinct' /\ TempHoldsDigest'
    BY DEF LocalsSet, NamesDistinct, TempHoldsDigest, OwnsTemp, Fetching
  <1>3. CopyIsPrefix' /\ CopyIsWhole' /\ RetPublished'
    BY DEF CopyIsPrefix, CopyIsWhole, RetPublished
  <1>4. KeyMatchesContent' /\ AckedRetrievable'
    BY DEF KeyMatchesContent, AckedRetrievable, HasKey, GetFileForContents
  <1> QED
    BY <1>1, <1>2, <1>3, <1>4

\* Every step preserves the invariant.
LEMMA NextIInv == IInv /\ [Next]_vars => IInv'
  <1> SUFFICES ASSUME IInv, [Next]_vars PROVE IInv'
    OBVIOUS
  <1>1. ASSUME NEW t \in Thread, NEW f \in File, OpenRemote(t, f) PROVE IInv'
    BY <1>1, OpenRemoteIInv
  <1>2. ASSUME NEW t \in Thread, Step(t) PROVE IInv'
    BY <1>2, TempFileIInv, CopyChunkIInv, CopyEOFIInv, CopyErrIInv, CheckKeyIInv,
       MkdirIInv, RenameIInv, RemoveIInv DEF Step
  <1>3. CASE Crash
    BY <1>3, CrashIInv
  <1>4. CASE UNCHANGED vars
    <2> USE <1>4 DEF IInv, vars, fsVars, threadVars, historyVars
    <2>1. TypeOK' /\ LocalsSet' /\ NamesDistinct' /\ TempHoldsDigest'
      BY DEF TypeOK, LocalsSet, NamesDistinct, TempHoldsDigest
    <2>2. CopyIsPrefix' /\ CopyIsWhole' /\ RetPublished'
      BY DEF CopyIsPrefix, CopyIsWhole, RetPublished
    <2>3. KeyMatchesContent' /\ AckedRetrievable'
      BY DEF KeyMatchesContent, AckedRetrievable, HasKey, GetFileForContents
    <2> QED
      BY <2>1, <2>2, <2>3
  <1> QED
    BY <1>1, <1>2, <1>3, <1>4 DEF Next

\* The invariant holds in every reachable state.
LEMMA SpecIInv == Spec => []IInv
  BY InitIInv, NextIInv, PTL DEF Spec
-----------------------------------------------------------------------------
\* The state of the content cache is well typed in every reachable state of
\* PutContents, for any number of concurrent fetches.
THEOREM TypeCorrect == Spec => []TypeOK
  <1>1. IInv => TypeOK
    BY DEF IInv
  <1> QED
    BY <1>1, SpecIInv, PTL

\* No partial, torn or failed copy is ever visible under a key: Rename is the
\* only publication and it publishes what was hashed.
THEOREM ContentIntegrity == Spec => []KeyMatchesContent
  <1>1. IInv => KeyMatchesContent
    BY DEF IInv
  <1> QED
    BY <1>1, SpecIInv, PTL

\* Every key that PutContents returned stays retrievable, across kills of the
\* process, and retrieves the content of an immutable remote file.
THEOREM ContentDurability == Spec => []AckedRetrievable
  <1>1. IInv => AckedRetrievable
    BY DEF IInv
  <1> QED
    BY <1>1, SpecIInv, PTL

\* Publication is final: only Rename writes under a key, and over a published
\* file it can only write the same content.
LEMMA StoreStep ==
    ASSUME IInv, [Next]_vars
    PROVE  \A k \in Key : HasKey(k) => store'[k] = store[k]
  <1>1. ASSUME NEW t \in Thread, Rename(t), store' # store
        PROVE  \A k \in Key : HasKey(k) => store'[k] = store[k]
    <2>1. pc[t] = "rename" /\ store' = [store EXCEPT ![KeyOf(t)] = temps[name[t]]]
      BY <1>1 DEF Rename
    <2>2. temps[name[t]] = digest[t] /\ digest[t] \in Content
      BY <2>1 DEF IInv, TypeOK, TempHoldsDigest, Fetching
    <2> QED
      BY <2>1, <2>2, MD5CollisionFree
      DEF IInv, TypeOK, HasKey, KeyMatchesContent, KeyOf
  <1>2. ASSUME NEW t \in Thread, Step(t) PROVE Rename(t) \/ UNCHANGED store
    BY <1>2 DEF Step, TempFile, CopyChunk, CopyEOF, CopyErr, CheckKey, Mkdir,
                Remove, fsVars
  <1>3. ASSUME NEW t \in Thread, NEW f \in File, OpenRemote(t, f)
        PROVE  UNCHANGED store
    BY <1>3 DEF OpenRemote, fsVars
  <1>4. CASE UNCHANGED store
    BY <1>4
  <1>5. CASE Crash \/ UNCHANGED vars
    BY <1>4, <1>5 DEF Crash, vars, fsVars
  <1> QED
    BY <1>1, <1>2, <1>3, <1>4, <1>5 DEF Next

\* A file published under a key is never removed nor changed by any later
\* step of any fetch, nor by a kill of the process.
THEOREM PublicationIsFinal == Spec => PublishedIsFinal
  <1>1. IInv /\ [Next]_vars
           => [\A k \in Key : HasKey(k) => store'[k] = store[k]]_store
    BY StoreStep
  <1> QED
    BY <1>1, SpecIInv, PTL DEF Spec, PublishedIsFinal

\* One step keeps every temporary file accounted for.
LEMMA TempsStep ==
    ASSUME IInv, TempsAccountedFor, [Next]_vars
    PROVE  TempsAccountedFor'
  <1> USE DEF IInv, TypeOK, TempsAccountedFor, OwnsTemp, fsVars, historyVars
  <1>1. ASSUME NEW t \in Thread, NEW f \in File, OpenRemote(t, f)
        PROVE  TempsAccountedFor'
    BY <1>1 DEF OpenRemote
  <1>2. ASSUME NEW t \in Thread, TempFile(t)
        PROVE  TempsAccountedFor'
    <2>1. CASE UNCHANGED <<temps, name>>
      BY <1>2, <2>1 DEF TempFile
    <2>2. ASSUME NEW n \in TempName,
                 temps' = [temps EXCEPT ![n] = <<>>],
                 name' = [name EXCEPT ![t] = n],
                 pc' = [pc EXCEPT ![t] = "copy"]
          PROVE  TempsAccountedFor'
      BY <1>2, <2>2 DEF TempFile
    <2> QED
      BY <1>2, <2>1, <2>2 DEF TempFile
  <1>3. ASSUME NEW t \in Thread, CopyChunk(t) \/ CopyErr(t)
        PROVE  TempsAccountedFor'
    <2>1. /\ pc[t] = "copy" /\ name[t] \in TempName
          /\ \A n \in TempName : n # name[t] => temps'[n] = temps[n]
          /\ pc'[t] \in OwnsTemp /\ \A u \in Thread : u # t => pc'[u] = pc[u]
          /\ UNCHANGED <<name, orphans>>
      BY <1>3 DEF CopyChunk, CopyErr, Fail, LocalsSet
    <2> QED
      BY <2>1
  <1>4. ASSUME NEW t \in Thread, CopyEOF(t) \/ CheckKey(t) \/ Mkdir(t)
        PROVE  TempsAccountedFor'
    <2>1. /\ pc'[t] \in OwnsTemp /\ \A u \in Thread : u # t => pc'[u] = pc[u]
          /\ pc[t] \in OwnsTemp
          /\ UNCHANGED <<temps, name, orphans>>
      BY <1>4 DEF CopyEOF, CheckKey, Mkdir, Fail
    <2> QED
      BY <2>1
  <1>5. ASSUME NEW t \in Thread, Rename(t)
        PROVE  TempsAccountedFor'
    <2>1. /\ pc'[t] \in OwnsTemp /\ \A u \in Thread : u # t => pc'[u] = pc[u]
          /\ \A n \in TempName : temps'[n] # NoFile => temps[n] # NoFile
          /\ pc[t] \in OwnsTemp
          /\ UNCHANGED <<name, orphans>>
      BY <1>5 DEF Rename, Fail
    <2> QED
      BY <2>1
  <1>6. ASSUME NEW t \in Thread, Remove(t)
        PROVE  TempsAccountedFor'
    <2>1. name[t] \in TempName
      BY <1>6 DEF Remove, LocalsSet
    <2>2. \A u \in Thread : u # t => pc'[u] = pc[u] /\ name'[u] = name[u]
      BY <1>6 DEF Remove, Return
    <2>3. CASE temps' = [temps EXCEPT ![name[t]] = NoFile] /\ UNCHANGED orphans
      BY <2>1, <2>2, <2>3
    <2>4. CASE orphans' = orphans \union {name[t]} /\ UNCHANGED temps
      BY <2>1, <2>2, <2>4
    <2> QED
      BY <1>6, <2>3, <2>4 DEF Remove
  <1>7. CASE Crash
    BY <1>7 DEF Crash
  <1>8. CASE UNCHANGED vars
    BY <1>8 DEF vars, threadVars
  <1> QED
    BY <1>1, <1>2, <1>3, <1>4, <1>5, <1>6, <1>7, <1>8 DEF Next, Step

\* The deferred Remove leaks nothing: a temporary file that no running fetch
\* owns was left by a kill of the process or by a Remove that failed.
THEOREM NoTempLeak == Spec => []TempsAccountedFor
  <1>1. Init => TempsAccountedFor
    BY DEF Init, TempsAccountedFor
  <1>2. IInv /\ TempsAccountedFor /\ [Next]_vars => TempsAccountedFor'
    BY TempsStep
  <1> QED
    BY <1>1, <1>2, SpecIInv, PTL DEF Spec
-----------------------------------------------------------------------------
\* A step that publishes nothing leaves the set of published contents alone.
LEMMA PublishedSame ==
    ASSUME UNCHANGED store
    PROVE  Published' = Published
  BY DEF Published, HasKey

\* Each step of a fetch is a step of the abstract store, or changes nothing
\* that the abstract store can see.
LEMMA StepRefines ==
    ASSUME IInv, [Next]_vars
    PROVE  [Abstract!Next]_(Abstract!vars)
  <1> USE DEF IInv
  <1>1. CASE UNCHANGED <<store, acked>>
    BY <1>1, PublishedSame DEF Abstract!vars
  <1>2. ASSUME NEW t \in Thread, Rename(t), store' # store
        PROVE  Abstract!Next
    <2>1. /\ pc[t] = "rename" /\ UNCHANGED acked
          /\ store' = [store EXCEPT ![KeyOf(t)] = temps[name[t]]]
      BY <1>2 DEF Rename, historyVars
    <2>2. /\ temps[name[t]] = digest[t] /\ digest[t] \in Content
          /\ KeyOf(t) \in Key
      BY <2>1, DigestIsKey DEF TypeOK, TempHoldsDigest, Fetching
    <2>3. digest[t] # NoFile
      BY <2>2, ConstantsAssumption
    <2>4. \A k \in Key : HasKey(k) => store'[k] = store[k]
      BY <1>2, StoreStep DEF Next, Step
    <2>5. Published' = Published \union {digest[t]}
      <3>1. store'[KeyOf(t)] = digest[t]
        BY <2>1, <2>2 DEF TypeOK
      <3>2. \A k \in Key : k # KeyOf(t) => store'[k] = store[k]
        BY <2>1 DEF TypeOK
      <3> QED
        BY <2>2, <2>3, <2>4, <3>1, <3>2 DEF Published, HasKey
    <2> QED
      BY <2>1, <2>2, <2>5 DEF Abstract!Next, Abstract!Publish
  <1>3. ASSUME NEW t \in Thread, Remove(t), acked' # acked
        PROVE  Abstract!Next
    <2>1. /\ pc[t] = "remove" /\ ret[t] # Err /\ UNCHANGED store
          /\ acked' = acked \union {<<file[t], ret[t]>>}
      BY <1>3 DEF Remove, Return
    <2> DEFINE c == store[ret[t]]
    <2>2. /\ file[t] \in File /\ ret[t] \in Key /\ c \in Content
          /\ file[t] \notin Mutable => c = Remote[file[t]]
      BY <2>1 DEF TypeOK, LocalsSet, RetPublished
    <2>3. HasKey(ret[t])
      BY <2>2, ConstantsAssumption DEF HasKey
    <2>4. c \in Published /\ MD5[c] = ret[t]
      BY <2>2, <2>3 DEF Published, KeyMatchesContent
    <2>5. Published' = Published
      BY <2>1, PublishedSame
    <2> HIDE DEF c
    <2>6. Abstract!Acknowledge(file[t], c)
      BY <2>1, <2>2, <2>4, <2>5 DEF Abstract!Acknowledge
    <2> QED
      BY <2>2, <2>6 DEF Abstract!Next
  <1>4. ASSUME NEW t \in Thread, Step(t)
        PROVE  \/ UNCHANGED <<store, acked>>
               \/ Rename(t) /\ store' # store
               \/ Remove(t) /\ acked' # acked
    BY <1>4 DEF Step, TempFile, CopyChunk, CopyEOF, CopyErr, CheckKey, Mkdir,
                Rename, Remove, fsVars, historyVars
  <1>5. ASSUME NEW t \in Thread, NEW f \in File, OpenRemote(t, f)
        PROVE  UNCHANGED <<store, acked>>
    BY <1>5 DEF OpenRemote, fsVars, historyVars
  <1>6. CASE Crash \/ UNCHANGED vars
    BY <1>1, <1>6 DEF Crash, vars, fsVars, historyVars
  <1> QED
    BY <1>1, <1>2, <1>3, <1>4, <1>5, <1>6 DEF Next

\* The steps of PutContents implement the abstract content store: contents
\* appear whole and at once, none is lost, and only keys that retrieve what
\* was asked for are returned.
THEOREM Refinement == Spec => ImplementsContentStore
  <1>1. Init => Abstract!Init
    BY DEF Init, Abstract!Init, Published, HasKey
  <1>2. IInv /\ [Next]_vars => [Abstract!Next]_(Abstract!vars)
    BY StepRefines
  <1> QED
    BY <1>1, <1>2, SpecIInv, PTL DEF Spec, ImplementsContentStore, Abstract!Spec
=============================================================================
