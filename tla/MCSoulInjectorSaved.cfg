SPECIFICATION Spec
CONSTANTS
    None = None
    image1 = image1
    image2 = image2
    job1 = job1
    job2 = job2
    Name <- MCName
    JobName = "job.pb"
    StagedName = "job.pb.new"
    Content <- MCContent
    Job <- MCJob
    Image <- MCImage
    Family <- MCFamily
    Upload <- MCUpload
    ProgRig = FALSE
    Capacity = 1
    RunIds = 2
INVARIANTS
    ActivatedIsSaved
