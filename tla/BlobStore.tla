------------------------------ MODULE BlobStore ------------------------------
(***************************************************************************)
(* The blob bucket store of the server and its full-text search, as the    *)
(* blob methods of the client see them.  The design specification leaves   *)
(* the store out (section 1: "a separate key -> bytes store"); what is     *)
(* here is what the docstrings of python/oxidb.py and the order of the     *)
(* calls in examples/python/remote_demo.py say of it:                      *)
(*                                                                         *)
(*   - an object is bytes, a content type and metadata under a key of a    *)
(*     bucket; its content travels base64-encoded in both directions;      *)
(*   - a bucket is emptied before it is deleted;                           *)
(*   - a request for a bucket that does not exist is answered with an      *)
(*     error or with nothing found: both are allowed here;                 *)
(*   - search finds any of the objects: indexing is asynchronous, and the  *)
(*     ranking is left out.                                                *)
(***************************************************************************)
EXTENDS Server

CONSTANTS
    Buckets,    \* bucket names
    ObjKeys,    \* object keys
    Bytes,      \* contents
    KeyPrefixes \* KeyPrefixes[k]: the prefixes of key k that listings ask for

VARIABLES
    blobs       \* blobs[b][k]: the object under key k of the bucket b that exists

Bucket(c)  == Req(c).bucket
Exists(c)  == Bucket(c) \in DOMAIN blobs
Holds(c)   == Exists(c) /\ Req(c).key \in DOMAIN blobs[Bucket(c)]
Without(f, x) == [y \in DOMAIN f \ {x} |-> f[y]]

\* key.startswith(prefix)
StartsWith(key, prefix) == prefix \in KeyPrefixes[key]

\* The objects a listing or a search answers with: all of objs, or any of
\* them under a limit or a query.
Listed(objs, narrowed) ==
    {SetToSeq({[bucket |-> o[1], key |-> o[2]] : o \in some}) :
        some \in IF narrowed THEN SUBSET objs ELSE {objs}}

CreateBucket(c) ==
    /\ Takes(c, {"create_bucket"})
    /\ blobs' = IF Exists(c) THEN blobs ELSE blobs @@ (Bucket(c) :> <<>>)
    /\ Reply(c, Ok([created |-> TRUE]))

ListBuckets(c) ==
    /\ Takes(c, {"list_buckets"})
    /\ Reply(c, Ok([buckets |-> DOMAIN blobs]))
    /\ UNCHANGED blobs

DeleteBucket(c) ==
    /\ Takes(c, {"delete_bucket"})
    /\ \/ /\ ~Exists(c)
          /\ \E r \in {Err("BucketNotFound"), Ok([deleted |-> FALSE])} : Reply(c, r)
          /\ UNCHANGED blobs
       \/ /\ Exists(c) /\ DOMAIN blobs[Bucket(c)] # {}
          /\ Reply(c, Err("BucketNotEmpty"))
          /\ UNCHANGED blobs
       \/ /\ Exists(c) /\ DOMAIN blobs[Bucket(c)] = {}
          /\ blobs' = Without(blobs, Bucket(c))
          /\ Reply(c, Ok([deleted |-> TRUE]))

\* Faulty variant: the content is stored as it came, encoded.
PutObjectEncoded(c) ==
    LET obj == [content |-> Req(c).data, content_type |-> Req(c).content_type,
                metadata |-> <<>>]
    IN  /\ Takes(c, {"put_object"})
        /\ Exists(c)
        /\ blobs' = [blobs EXCEPT ![Bucket(c)] = (Req(c).key :> obj) @@ @]
        /\ Reply(c, Ok([key |-> Req(c).key]))

PutObject(c) ==
    LET obj == [content      |-> b64decode(Req(c).data),
                content_type |-> Req(c).content_type,
                metadata     |-> IF "metadata" \in DOMAIN Req(c)
                                 THEN Req(c).metadata ELSE <<>>]
    IN  /\ Takes(c, {"put_object"})
        /\ \/ /\ ~Exists(c)
              /\ Reply(c, Err("BucketNotFound"))
              /\ UNCHANGED blobs
           \/ /\ Exists(c)
              /\ blobs' = [blobs EXCEPT ![Bucket(c)] = (Req(c).key :> obj) @@ @]
              /\ Reply(c, Ok([key |-> Req(c).key]))

\* get_object answers content and metadata, head_object the metadata.
ReadObject(c) ==
    LET obj == blobs[Bucket(c)][Req(c).key]
    IN  /\ Takes(c, {"get_object", "head_object"})
        /\ Reply(c, IF ~Holds(c) THEN Err("ObjectNotFound")
                    ELSE IF Req(c).cmd = "head_object"
                    THEN Ok([key |-> Req(c).key, metadata |-> obj.metadata])
                    ELSE Ok([content |-> b64encode(obj.content),
                             metadata |-> obj.metadata]))
        /\ UNCHANGED blobs

DeleteObject(c) ==
    /\ Takes(c, {"delete_object"})
    /\ \/ /\ ~Holds(c)
          /\ Reply(c, Err("ObjectNotFound"))
          /\ UNCHANGED blobs
       \/ /\ Holds(c)
          /\ blobs' = [blobs EXCEPT ![Bucket(c)] = Without(@, Req(c).key)]
          /\ Reply(c, Ok([deleted |-> TRUE]))

\* The keys of the bucket, those under the prefix when one is given.
ListObjects(c) ==
    LET under == {k \in DOMAIN blobs[Bucket(c)] :
                     "prefix" \in DOMAIN Req(c) => StartsWith(k, Req(c).prefix)}
    IN  /\ Takes(c, {"list_objects"})
        /\ \/ /\ ~Exists(c)
              /\ \E r \in {Err("BucketNotFound"), Ok([objects |-> <<>>])} : Reply(c, r)
           \/ /\ Exists(c)
              /\ \E objs \in Listed({Bucket(c)} \X under, "limit" \in DOMAIN Req(c)) :
                    Reply(c, Ok([objects |-> objs]))
        /\ UNCHANGED blobs

Search(c) ==
    LET in == IF "bucket" \in DOMAIN Req(c) THEN {Bucket(c)} \cap DOMAIN blobs
                                           ELSE DOMAIN blobs
    IN  /\ Takes(c, {"search"})
        /\ \E hits \in Listed(UNION {{b} \X DOMAIN blobs[b] : b \in in}, TRUE) :
              Reply(c, Ok([hits |-> hits]))
        /\ UNCHANGED blobs

HandleBlob(c) ==
    /\ \/ CreateBucket(c) \/ ListBuckets(c) \/ DeleteBucket(c)
       \/ PutObject(c) \/ ReadObject(c) \/ DeleteObject(c)
       \/ ListObjects(c) \/ Search(c)
    /\ UNCHANGED serverVars

\* No bucket, or the one bucket b with the objects of keys.
BlobInit(b, keys, bytes) ==
    blobs \in {<<>>} \cup {b :> [k \in ks |-> [content |-> bytes, content_type |-> "text/plain",
                                                metadata |-> <<>>]] : ks \in SUBSET keys}

BlobTypeOK ==
    /\ DOMAIN blobs \subseteq Buckets
    /\ \A b \in DOMAIN blobs :
        /\ DOMAIN blobs[b] \subseteq ObjKeys
        /\ \A k \in DOMAIN blobs[b] : blobs[b][k].content \in Bytes

=============================================================================
