SPECIFICATION FairSpec
CONSTANTS
    None = None
    image1 = image1
    image2 = image2
    job1 = job1
    job2 = job2
    Name <- MCName
    JobName = "job.pb"
    StagedName = "job.pb.new"
    Content <- OneContent
    Job <- OneJob
    Image <- OneImage
    Family <- OneFamily
    Upload <- OneUpload
    ProgRig = TRUE
    Capacity = 1
    RunIds = 2
PROPERTIES
    RunEnds
    TargetServed
