SPECIFICATION FairSpec
CONSTANTS
    Thread = {t1, t2}
    f1 = f1
    f2 = f2
    a = a
    b0 = b0
    b1 = b1
    Chunk = {a}
    MaxLen = 2
    TempName = {n1, n2}
    NoFile = NoFile
    Err = Err
    File <- MCFile
    Mutable <- MCMutable
    Remote <- MCRemote
    Key <- MCKey
    MD5 <- MCMD5
    Bucket <- MCBucket
    bucketForKey <- MCbucketForKey
INVARIANTS
    TypeOK
    KeyMatchesContent
    AckedRetrievable
    TempsAccountedFor
PROPERTIES
    PublishedIsFinal
    ImplementsContentStore
    PutTerminates
